---- MODULE Spec2Model ----
(***************************************************************************)
(* Model of deploy/serverless/handler.py: the serverless handler that      *)
(* supervises the ComfyUI engine process, validates a request, builds a    *)
(* workflow, submits it, polls for completion, extracts the output files   *)
(* and delivers them (Supabase upload or inline base64).                   *)
(*                                                                         *)
(* Python dicts are functions from key strings to values; a key is present *)
(* iff it is in the DOMAIN.  Python lists are sequences.  None is the      *)
(* string "None" where a variable may hold it.                             *)
(***************************************************************************)
EXTENDS Integers, Sequences, FiniteSets, TLC

(***************************************************************************)
(* Bounds of the model.                                                    *)
(***************************************************************************)
\* requests received over the lifetime of the worker process
MaxRequests == 2
\* iterations of the readiness loop before STARTUP_TIMEOUT elapses
MaxStartupPolls == 2
\* iterations of the history loop before the completion timeout elapses
MaxHistoryPolls == 2

(***************************************************************************)
(* Program constants.                                                      *)
(***************************************************************************)
HANDLER_VERSION == "v34"
COMFYUI_INPUT == "/workspace/ComfyUI/input"
OUTPUT_DIR == "/workspace/ComfyUI/output"
\* 10 * 1024 * 1024, the inline ceiling of the no-Supabase branch
InlineCeiling == 10485760

\* the worker threads that may run handler()
Procs == {"w1", "w2"}

(***************************************************************************)
(* Dict helpers.                                                           *)
(***************************************************************************)
\* d.get(k, default)
Get(d, k, default) == IF k \in DOMAIN d THEN d[k] ELSE default

\* d.update(u): the keys of u win
Update(d, u) == u @@ d

\* {} as a value
EmptyDict == <<>>

\* the names a request may give that begin with "/"
AbsoluteNames == {"/etc/hostname", "/etc/missing.png"}

\* os.path.isabs(name)
IsAbsolute(name) == name \in AbsoluteNames

\* os.path.join(root, rel): an absolute rel discards root.  A path is the
\* pair of its root ("" for an absolute name) and the name
PathJoin(root, rel) == IF IsAbsolute(rel) THEN <<"", rel>> ELSE <<root, rel>>

\* the files of the container outside COMFYUI_INPUT that the absolute names
\* can reach
HostFiles == {"/etc/hostname"}

\* os.path.exists(path), inputDir being the files under COMFYUI_INPUT
Exists(path, inputDir) ==
    IF path[1] = "" THEN path[2] \in HostFiles ELSE path[2] \in inputDir

\* os.path.join(OUTPUT_DIR, subfolder, filename)
OutputPath(subfolder, filename) == <<OUTPUT_DIR, subfolder, filename>>

(***************************************************************************)
(* Exceptions: the Python class hierarchy the except clauses match on.     *)
(***************************************************************************)
ExceptionParent ==
    [ RuntimeError     |-> "Exception",
      ValueError       |-> "Exception",
      OSError          |-> "Exception",
      TimeoutError     |-> "OSError",
      PermissionError  |-> "OSError",
      FileNotFoundError |-> "OSError",
      RequestException |-> "OSError",
      ConnectionError  |-> "RequestException",
      KeyError         |-> "LookupError",
      LookupError      |-> "Exception",
      Exception        |-> "BaseException" ]

RECURSIVE IsInstance(_, _)
IsInstance(cls, target) ==
    IF cls = target THEN TRUE
    ELSE IF cls \in DOMAIN ExceptionParent
         THEN IsInstance(ExceptionParent[cls], target)
         ELSE FALSE

Exc(cls, msg) == [cls |-> cls, msg |-> msg]
NoException == Exc("None", <<>>)

\* start_comfyui: "except requests.exceptions.RequestException: pass"
ReadinessCatches(cls) == IsInstance(cls, "RequestException")

\* cleanup_output_files: "except OSError as e"
CleanupCatches(cls) == IsInstance(cls, "OSError")

\* Variant: a handler that catches RuntimeError alone.
HandlerCatchesOnlyRuntimeError(cls) == IsInstance(cls, "RuntimeError")
\* handler: "except Exception as e"
HandlerCatches(cls) == IsInstance(cls, "Exception")

(***************************************************************************)
(* validate_inputs(action, params): the list of errors.                    *)
(***************************************************************************)
LipsyncPortraitErrors(params, inputDir) ==
    LET portrait == Get(params, "portrait_image", "")
        portrait_path == PathJoin(COMFYUI_INPUT, portrait)
    IN IF portrait = ""
       THEN << <<"Missing required parameter", "portrait_image">> >>
       ELSE IF ~Exists(portrait_path, inputDir)
            THEN << <<"Portrait not found", portrait_path>> >>
            ELSE <<>>

LipsyncAudioErrors(params, inputDir) ==
    LET audio == Get(params, "audio", "")
        audio_path == PathJoin(COMFYUI_INPUT, audio)
    IN IF audio = ""
       THEN << <<"Missing required parameter", "audio">> >>
       ELSE IF ~Exists(audio_path, inputDir)
            THEN << <<"Audio not found", audio_path>> >>
            ELSE <<>>

TtsTextErrors(params) ==
    IF Get(params, "text", "") = ""
    THEN << <<"Missing required parameter", "text">> >>
    ELSE <<>>

\* Variant: a validation that requires the voice sample.
TtsSampleRequired(params, inputDir) ==
    LET voice_sample == Get(params, "voice_sample", "")
        sample_path == PathJoin(COMFYUI_INPUT, voice_sample)
    IN IF ~Exists(sample_path, inputDir)
       THEN << <<"Voice sample not found", sample_path>> >>
       ELSE <<>>
TtsSampleErrors(params, inputDir) ==
    LET voice_sample == Get(params, "voice_sample", "")
        sample_path == PathJoin(COMFYUI_INPUT, voice_sample)
    IN IF voice_sample # "" /\ ~Exists(sample_path, inputDir)
       THEN << <<"Voice sample not found", sample_path>> >>
       ELSE <<>>

\* Variant: a validation that asks every action for the lipsync references.
ValidateEveryAction(action, params, inputDir) ==
    IF action = "tts"
    THEN TtsTextErrors(params) \o TtsSampleErrors(params, inputDir)
    ELSE LipsyncPortraitErrors(params, inputDir) \o LipsyncAudioErrors(params, inputDir)
validate_inputs(action, params, inputDir) ==
    IF action = "lipsync"
    THEN LipsyncPortraitErrors(params, inputDir) \o LipsyncAudioErrors(params, inputDir)
    ELSE IF action = "tts"
         THEN TtsTextErrors(params) \o TtsSampleErrors(params, inputDir)
         ELSE <<>>

(***************************************************************************)
(* get_output_files(history): the descriptors, in node order and, within a *)
(* node, in the order images, gifs, videos, audio.                         *)
(***************************************************************************)
Descriptor(type, item) ==
    [ type      |-> type,
      filename  |-> item["filename"],
      subfolder |-> Get(item, "subfolder", ""),
      path      |-> OutputPath(Get(item, "subfolder", ""), item["filename"]) ]

RECURSIVE DescriptorsOf(_, _)
DescriptorsOf(type, items) ==
    IF items = <<>> THEN <<>>
    ELSE <<Descriptor(type, Head(items))>> \o DescriptorsOf(type, Tail(items))

KeyDescriptors(node_output, key, type) ==
    IF key \in DOMAIN node_output
    THEN DescriptorsOf(type, node_output[key])
    ELSE <<>>

\* Variant: an extractor that does not know the "videos" key.
NodeDescriptorsWithoutVideos(node_output) ==
    KeyDescriptors(node_output, "images", "image")
    \o KeyDescriptors(node_output, "gifs", "video")
    \o KeyDescriptors(node_output, "audio", "audio")

\* the four "if key in node_output" blocks of the loop body
NodeDescriptors(node_output) ==
    KeyDescriptors(node_output, "images", "image")
    \o KeyDescriptors(node_output, "gifs", "video")
    \o KeyDescriptors(node_output, "videos", "video")
    \o KeyDescriptors(node_output, "audio", "audio")

RECURSIVE OutputsDescriptors(_)
OutputsDescriptors(outputs) ==
    IF outputs = <<>> THEN <<>>
    ELSE NodeDescriptors(Head(outputs)[2]) \o OutputsDescriptors(Tail(outputs))

\* history["outputs"] is kept as the sequence of its (node_id, node_output)
\* items, in the dict's iteration order
get_output_files(history) == OutputsDescriptors(Get(history, "outputs", <<>>))

(***************************************************************************)
(* Workflow builders.  A node input is a literal Lit(v) or a reference     *)
(* Ref(node, slot) (the Python list [node, slot]).  Floats are kept in     *)
(* tenths (7.0 is 70).                                                     *)
(***************************************************************************)
Lit(v) == [lit |-> v]
\* Variant: every reference names a node that no graph holds.
RefOutside(node, slot) == [ref |-> "n0", slot |-> slot]
\* the Python list [node, slot]
Ref(node, slot) == [ref |-> node, slot |-> slot]

\* Python integers are unbounded.  A seed is kept as Big(hi, lo), the integer
\* hi * 2^30 + lo with 0 <= lo < 2^30 (hi is negative for a negative integer),
\* so that values up to and beyond 2^32 can be written.
Limb == 2 ^ 30
Big(hi, lo) == [hi |-> hi, lo |-> lo]

\* the literal -1, the sentinel of params.get("seed", -1)
MinusOne == Big(-1, Limb - 1)

\* v >= 0
NonNegative(v) == v.hi >= 0

\* the modulus of "seed % 2147483647"
SeedModulus == 2147483647

\* (a + b) % SeedModulus for a, b in 0 .. SeedModulus - 1
AddMod(a, b) == IF a >= SeedModulus - b THEN a - (SeedModulus - b) ELSE a + b

\* (x * 2^k) % SeedModulus for x in 0 .. SeedModulus - 1, by k doublings
RECURSIVE MulPow2Mod(_, _)
MulPow2Mod(x, k) == IF k = 0 THEN x ELSE MulPow2Mod(AddMod(x, x), k - 1)

\* v % SeedModulus as Python computes it (the result has the sign of the
\* modulus, so it is in 0 .. SeedModulus - 1 also for a negative v)
PyMod(v) ==
    LET r == AddMod(MulPow2Mod(v.hi % SeedModulus, 30), v.lo % SeedModulus)
    IN Big(r \div Limb, r % Limb)

\* int.from_bytes(os.urandom(4), "big") ranges over 0 .. 2^32 - 1; the draws
\* the model takes from that range: 0, 2^31 - 2, 2^31 - 1 and 2^32 - 1
UrandomDraws == { Big(0, 0), Big(1, Limb - 2), Big(1, Limb - 1), Big(3, Limb - 1) }

\* Variant: a builder that always draws the seed.
AlwaysFresh(params, fresh) == fresh
\* "seed = params.get("seed", -1); if seed == -1: seed = <fresh draw>"
ResolveSeed(params, fresh) ==
    LET seed == Get(params, "seed", MinusOne)
    IN IF seed = MinusOne THEN fresh ELSE seed

build_portrait_workflow(params, fresh) ==
    LET model == Get(params, "model", "sd_xl_base_1.0.safetensors")
        prompt == Get(params, "prompt", Get(params, "description", "A portrait"))
        negative == Get(params, "negative_prompt", "low quality, blurry, distorted")
        width == Get(params, "width", 768)
        height == Get(params, "height", 1024)
        steps == Get(params, "steps", 20)
        cfg == Get(params, "cfg_scale", 70)
        seed == ResolveSeed(params, fresh)
    IN [ n3 |-> [ class_type |-> "KSampler",
                  inputs |-> [ seed |-> Lit(seed), steps |-> Lit(steps), cfg |-> Lit(cfg),
                               sampler_name |-> Lit("euler_ancestral"),
                               scheduler |-> Lit("normal"), denoise |-> Lit(10),
                               model |-> Ref("n4", 0), positive |-> Ref("n6", 0),
                               negative |-> Ref("n7", 0), latent_image |-> Ref("n5", 0) ] ],
         n4 |-> [ class_type |-> "CheckpointLoaderSimple",
                  inputs |-> [ ckpt_name |-> Lit(model) ] ],
         n5 |-> [ class_type |-> "EmptyLatentImage",
                  inputs |-> [ width |-> Lit(width), height |-> Lit(height),
                               batch_size |-> Lit(1) ] ],
         n6 |-> [ class_type |-> "CLIPTextEncode",
                  inputs |-> [ text |-> Lit(prompt), clip |-> Ref("n4", 1) ] ],
         n7 |-> [ class_type |-> "CLIPTextEncode",
                  inputs |-> [ text |-> Lit(negative), clip |-> Ref("n4", 1) ] ],
         n8 |-> [ class_type |-> "VAEDecode",
                  inputs |-> [ samples |-> Ref("n3", 0), vae |-> Ref("n4", 2) ] ],
         n9 |-> [ class_type |-> "SaveImage",
                  inputs |-> [ filename_prefix |-> Lit(<<"portrait_", seed>>),
                               images |-> Ref("n8", 0) ] ] ]

build_tts_workflow(params, fresh) ==
    LET text == Get(params, "text", "Hello world")
        voice_sample == Get(params, "voice_sample", "voices/sample.wav")
        sample_text == Get(params, "sample_text", "")
        speed == Get(params, "speed", 10)
        seed == ResolveSeed(params, fresh)
        model == Get(params, "model", "F5TTS_v1_Base")
        vocoder == Get(params, "vocoder", "vocos")
    IN [ n1 |-> [ class_type |-> "LoadAudio",
                  inputs |-> [ audio |-> Lit(voice_sample) ] ],
         n2 |-> [ class_type |-> "F5TTSAudioInputs",
                  inputs |-> [ sample_audio |-> Ref("n1", 0), sample_text |-> Lit(sample_text),
                               speech |-> Lit(text), seed |-> Lit(seed), model |-> Lit(model),
                               vocoder |-> Lit(vocoder), speed |-> Lit(speed),
                               model_type |-> Lit("F5-TTS") ] ],
         n3 |-> [ class_type |-> "SaveAudioTensor",
                  inputs |-> [ audio |-> Ref("n2", 0),
                               filename_prefix |-> Lit("ComfyUI_TTS") ] ] ]

\* Variant: a builder that does not reduce the seed.
KeepSeed(seed) == seed
\* "seed = seed % 2147483647"
CapSeed(seed) == PyMod(seed)

build_lipsync_workflow(params, audio_duration, fresh) ==
    LET portrait == Get(params, "portrait_image", "portrait.png")
        audio == Get(params, "audio", "speech.wav")
        svd_model == Get(params, "svd_checkpoint", "svd_xt_1_1.safetensors")
        sonic_unet == Get(params, "sonic_unet", "unet.pth")
        inference_steps == Get(params, "inference_steps", 25)
        fps == Get(params, "fps", 250)
        seed == CapSeed(ResolveSeed(params, fresh))
    IN [ n1 |-> [ class_type |-> "ImageOnlyCheckpointLoader",
                  inputs |-> [ ckpt_name |-> Lit(<<"video/", svd_model>>) ] ],
         n2 |-> [ class_type |-> "LoadImage",
                  inputs |-> [ image |-> Lit(portrait) ] ],
         n3 |-> [ class_type |-> "LoadAudio",
                  inputs |-> [ audio |-> Lit(audio) ] ],
         n4 |-> [ class_type |-> "SONICTLoader",
                  inputs |-> [ model |-> Ref("n1", 0), sonic_unet |-> Lit(sonic_unet),
                               ip_audio_scale |-> Lit(10), use_interframe |-> Lit(TRUE),
                               dtype |-> Lit("fp16") ] ],
         n5 |-> [ class_type |-> "SONIC_PreData",
                  inputs |-> [ clip_vision |-> Ref("n1", 1), vae |-> Ref("n1", 2),
                               audio |-> Ref("n3", 0), image |-> Ref("n2", 0),
                               min_resolution |-> Lit(512), duration |-> Lit(audio_duration),
                               expand_ratio |-> Lit(1), weight_dtype |-> Ref("n4", 1) ] ],
         n6 |-> [ class_type |-> "SONICSampler",
                  inputs |-> [ model |-> Ref("n4", 0), data_dict |-> Ref("n5", 0),
                               seed |-> Lit(seed), randomize |-> Lit("randomize"),
                               inference_steps |-> Lit(inference_steps),
                               dynamic_scale |-> Lit(10), fps |-> Lit(fps) ] ],
         n7 |-> [ class_type |-> "VHS_VideoCombine",
                  inputs |-> [ images |-> Ref("n6", 0), audio |-> Ref("n3", 0),
                               frame_rate |-> Ref("n6", 1), loop_count |-> Lit(0),
                               filename_prefix |-> Lit("ComfyUI_LipSync"),
                               format |-> Lit("video/h264-mp4"), pingpong |-> Lit(FALSE),
                               save_output |-> Lit(TRUE) ] ] ]

(***************************************************************************)
(* Duration detection.  Durations are in tenths of a second.               *)
(***************************************************************************)
\* what the ffprobe subprocess can answer: a non-zero exit, an empty stdout,
\* "N/A" (the container states no duration), or a duration
ProbeOutcomes ==
    { [returncode |-> 1, stdout |-> ""],
      [returncode |-> 0, stdout |-> ""],
      [returncode |-> 0, stdout |-> "N/A"],
      [returncode |-> 0, stdout |-> "9.0"],
      [returncode |-> 0, stdout |-> "10.5"],
      [returncode |-> 0, stdout |-> "11.0"],
      [returncode |-> 0, stdout |-> "15.0"] }

\* the strings float() accepts
IsNumeric(str) == str \in {"9.0", "10.5", "11.0", "15.0"}

\* float(duration_str), in tenths
ParseDuration(str) ==
    CASE str = "9.0" -> 90
      [] str = "10.5" -> 105
      [] str = "11.0" -> 110
      [] str = "15.0" -> 150

\* Variant: a probe whose exit status is not looked at.
ProbeErrorIgnoringExit(probe) ==
    IF probe.stdout = ""
    THEN Exc("RuntimeError", <<"ffprobe returned empty duration">>)
    ELSE IF ~IsNumeric(probe.stdout)
         THEN Exc("ValueError", <<"could not convert string to float", probe.stdout>>)
         ELSE NoException
\* get_audio_duration: the exception it raises, or "None"
ProbeError(probe) ==
    IF probe.returncode # 0
    THEN Exc("RuntimeError", <<"ffprobe failed">>)
    ELSE IF probe.stdout = ""
         THEN Exc("RuntimeError", <<"ffprobe returned empty duration">>)
         ELSE IF ~IsNumeric(probe.stdout)
              THEN Exc("ValueError", <<"could not convert string to float", probe.stdout>>)
              ELSE NoException

Abs(x) == IF x < 0 THEN -x ELSE x

\* Variant: a tolerance that is reached at a difference of exactly 1.0.
resolve_duration_inclusive(detected, params) ==
    IF "duration" \in DOMAIN params /\ Abs(detected - params["duration"]) >= 10
    THEN [ duration |-> detected,
           warnings |-> << <<"Caller duration differs from detected, using detected",
                             params["duration"], detected>> >> ]
    ELSE [ duration |-> detected, warnings |-> <<>> ]
\* resolve_duration: (detected, warning); the tolerance 1.0 is 10 tenths
resolve_duration(detected, params) ==
    IF "duration" \in DOMAIN params /\ Abs(detected - params["duration"]) > 10
    THEN [ duration |-> detected,
           warnings |-> << <<"Caller duration differs from detected, using detected",
                             params["duration"], detected>> >> ]
    ELSE [ duration |-> detected, warnings |-> <<>> ]

\* what the probe did, as a stage of the request
ProbeStage(probe) ==
    IF probe.returncode # 0 THEN "probe_nonzero"
    ELSE IF probe.stdout = "" THEN "probe_empty"
    ELSE IF ~IsNumeric(probe.stdout) THEN "probe_unparsable"
    ELSE "probe_ok"

\* handler, the lipsync branch: the duration is resolved from the probe and
\* the workflow is built with it
LipsyncBuild(params, probe, fresh) ==
    LET r == resolve_duration(ParseDuration(probe.stdout), params)
    IN [ warnings |-> r.warnings,
         workflow |-> build_lipsync_workflow(params, r.duration, fresh) ]

(***************************************************************************)
(* The requests a caller may send (event["input"]).                        *)
(***************************************************************************)
\* the keys of d that are in keys
Restrict(d, keys) == [k \in keys |-> d[k]]

PortraitEvents ==
    { [description |-> "A portrait"],
      [action |-> "portrait", save_to_avatars |-> TRUE] }

TtsEvents ==
    { Update([action |-> "tts"], Restrict([text |-> "Hello", voice_sample |-> v], keys)) :
        v \in {"missing.wav", "voices/sample.wav"},
        keys \in SUBSET {"text", "voice_sample"} }

LipsyncEvents ==
    { Update([action |-> "lipsync"],
             Restrict([portrait_image |-> i, audio |-> a, duration |-> 100], keys)) :
        i \in {"missing.png", "portrait.png"},
        a \in {"missing.wav", "speech.wav"},
        keys \in { k \in SUBSET {"portrait_image", "audio", "duration"} :
                     "duration" \in k => k = {"portrait_image", "audio", "duration"} } }

OtherEvents == { [action |-> "health"], [action |-> "debug"], [action |-> "upscale"] }

Events == PortraitEvents \cup TtsEvents \cup LipsyncEvents \cup OtherEvents

\* the files under COMFYUI_INPUT when the worker starts
InitialInputDir == {"portrait.png", "speech.wav", "voices/sample.wav"}

(***************************************************************************)
(* What the engine may report for a job (the value of history[prompt_id]). *)
(***************************************************************************)
Item(pid, k) == [filename |-> <<"ComfyUI", pid, k>>, subfolder |-> "", type |-> "output"]
BareItem(pid, k) == [filename |-> <<"ComfyUI", pid, k>>]

EngineOutputs(pid) ==
    { <<>>,
      << <<"9", [images |-> <<Item(pid, 1)>>]>> >>,
      << <<"7", [gifs |-> <<Item(pid, 2)>>, text |-> <<"note">>]>> >>,
      << <<"3", [audio |-> <<BareItem(pid, 1)>>]>>, <<"9", [images |-> <<Item(pid, 3)>>]>> >>,
      << <<"12", [videos |-> <<Item(pid, 3)>>]>> >>,
      << <<"5", [text |-> <<"note">>]>> >> }

SuccessStatus == [status_str |-> "success", completed |-> TRUE, messages |-> <<>>]
ErrorStatus == [status_str |-> "error", completed |-> FALSE,
                messages |-> << <<"execution_error", "node 3">> >>]
BareStatus == [completed |-> FALSE, messages |-> <<>>]

Histories(pid) ==
    { [prompt |-> pid, status |-> SuccessStatus, outputs |-> o] : o \in EngineOutputs(pid) }
    \cup { [prompt |-> pid, status |-> SuccessStatus],
           [prompt |-> pid, status |-> ErrorStatus, outputs |-> <<>>],
           [prompt |-> pid, status |-> BareStatus, outputs |-> <<>>],
           [prompt |-> pid, outputs |-> << <<"9", [images |-> <<Item(pid, 1)>>]>> >>] }

\* os.path.getsize(path): the k-th file of a job is just under, at, or just
\* over the inline ceiling
getsize(path) == InlineCeiling + (path[3][3] - 2)

\* the paths of a list of descriptors
PathsOf(files) == { files[i]["path"] : i \in DOMAIN files }

(***************************************************************************)
(* State.                                                                  *)
(***************************************************************************)
VARIABLES
    comfyui_process,   \* the module global: 0 is None, n > 0 the n-th Popen handle
    launches,          \* number of subprocess.Popen calls so far
    engineUp,          \* the engine's HTTP server is listening
    readyAnswered,     \* GET /system_stats has answered 200 to start_comfyui
    supabase,          \* supabase_enabled(): SUPABASE_URL and SUPABASE_KEY are set
    outputDir,         \* the paths of the files that exist under OUTPUT_DIR
    inputDir,          \* the files that exist under COMFYUI_INPUT
    received,          \* number of handler() calls so far
    jobs,              \* number of prompts the engine has accepted
    pc,                \* where each worker is in handler()
    input_data,        \* handler locals, per worker
    warnings,
    workflow,
    prompt_id,
    history,
    output_files,
    results,
    idx,               \* position of the delivery loop in output_files
    avatar_filename,
    polls,             \* iterations done by the polling loop the worker is in
    last_poll,         \* what the last GET /history answered
    last_post,         \* what POST /prompt answered
    response,          \* what handler() returned
    outcome,           \* "running", "returned" or "raised" (exception left handler)
    raised,            \* the exception that left the try block of handler()
    trace,             \* the stages this request has gone through
    call               \* a direct call of one function: its arguments and results

engineVars == <<comfyui_process, launches, engineUp, readyAnswered>>
fsVars == <<outputDir, inputDir>>
countVars == <<received, jobs>>
localVars == <<input_data, warnings, workflow, prompt_id, history, output_files,
               results, idx, avatar_filename, polls, last_poll, last_post>>
endVars == <<response, outcome, raised>>
vars == <<engineVars, supabase, fsVars, countVars, pc, localVars, endVars, trace, call>>

\* no HTTP answer yet
NoAnswer == [status_code |-> 0, body |-> <<>>]

\* no function is called directly: the worker serves requests
NoCall == [fn |-> "none"]

\* the state of the worker process after the module is loaded
InitWorker ==
    /\ comfyui_process = 0
    /\ launches = 0
    /\ engineUp = FALSE
    /\ readyAnswered = FALSE
    /\ supabase \in BOOLEAN
    /\ outputDir = {}
    /\ inputDir = InitialInputDir
    /\ received = 0
    /\ jobs = 0
    /\ pc = [p \in Procs |-> "idle"]
    /\ input_data = [p \in Procs |-> <<>>]
    /\ warnings = [p \in Procs |-> <<>>]
    /\ workflow = [p \in Procs |-> <<>>]
    /\ prompt_id = [p \in Procs |-> 0]
    /\ history = [p \in Procs |-> <<>>]
    /\ output_files = [p \in Procs |-> <<>>]
    /\ results = [p \in Procs |-> <<>>]
    /\ idx = [p \in Procs |-> 0]
    /\ avatar_filename = [p \in Procs |-> "None"]
    /\ polls = [p \in Procs |-> 0]
    /\ last_poll = [p \in Procs |-> "none"]
    /\ last_post = [p \in Procs |-> NoAnswer]
    /\ response = [p \in Procs |-> <<>>]
    /\ outcome = [p \in Procs |-> "running"]
    /\ raised = [p \in Procs |-> NoException]
    /\ trace = [p \in Procs |-> {}]

Init ==
    /\ InitWorker
    /\ call = NoCall

(***************************************************************************)
(* Leaving handler(): a return, or an exception meeting the outer          *)
(* "except Exception" clause.                                              *)
(***************************************************************************)
Goto(p, label) == pc' = [pc EXCEPT ![p] = label]
Mark(p, stage) == trace' = [trace EXCEPT ![p] = @ \cup {stage}]

Leave(p, resp, how) ==
    /\ response' = [response EXCEPT ![p] = resp]
    /\ outcome' = [outcome EXCEPT ![p] = how]
    /\ Goto(p, "done")

Return(p, resp) ==
    /\ Leave(p, resp, "returned")
    /\ UNCHANGED raised

\* the dict the outer except clause returns
ErrorResponse(e) ==
    [status |-> "error", version |-> HANDLER_VERSION, error |-> e.msg]

Raise(p, e) ==
    /\ raised' = [raised EXCEPT ![p] = e]
    /\ IF HandlerCatches(e.cls)
       THEN Leave(p, ErrorResponse(e), "returned")
       ELSE Leave(p, response[p], "raised")

action(p) == Get(input_data[p], "action", "portrait")

(***************************************************************************)
(* handler(): entry, the non-workflow actions and validation.              *)
(***************************************************************************)
\* a worker picks up the next event: handler(event) is entered
ReceiveFrom(p, events) ==
    /\ pc[p] \in {"idle", "done"}
    /\ received < MaxRequests
    /\ \E ev \in events : input_data' = [input_data EXCEPT ![p] = ev]
    /\ received' = received + 1
    /\ Goto(p, "entry")
    /\ warnings' = [warnings EXCEPT ![p] = <<>>]
    /\ workflow' = [workflow EXCEPT ![p] = <<>>]
    /\ prompt_id' = [prompt_id EXCEPT ![p] = 0]
    /\ history' = [history EXCEPT ![p] = <<>>]
    /\ output_files' = [output_files EXCEPT ![p] = <<>>]
    /\ results' = [results EXCEPT ![p] = <<>>]
    /\ idx' = [idx EXCEPT ![p] = 0]
    /\ avatar_filename' = [avatar_filename EXCEPT ![p] = "None"]
    /\ polls' = [polls EXCEPT ![p] = 0]
    /\ last_poll' = [last_poll EXCEPT ![p] = "none"]
    /\ last_post' = [last_post EXCEPT ![p] = NoAnswer]
    /\ response' = [response EXCEPT ![p] = <<>>]
    /\ outcome' = [outcome EXCEPT ![p] = "running"]
    /\ raised' = [raised EXCEPT ![p] = NoException]
    /\ trace' = [trace EXCEPT ![p] = {}]
    /\ UNCHANGED <<engineVars, supabase, call, fsVars, jobs>>

Receive(p) == ReceiveFrom(p, Events)

\* the dict of the health action
HealthResponse ==
    [status |-> "healthy", version |-> HANDLER_VERSION,
     comfyui_url |-> "http://127.0.0.1:8188", supabase_configured |-> supabase]

Health(p) ==
    /\ pc[p] = "entry"
    /\ action(p) = "health"
    /\ Return(p, HealthResponse)
    /\ UNCHANGED <<engineVars, supabase, call, fsVars, countVars, localVars, trace>>

\* get_debug_info(): the process and API part of the dict (the directory
\* listings of the volume are left out); running is comfyui_process.poll() is None
get_debug_info(running) ==
    LET alive == comfyui_process # 0 /\ running
        debug == [version |-> HANDLER_VERSION, supabase_configured |-> supabase,
                  comfyui_process_alive |-> alive]
    IN IF alive
       THEN Update(debug, [comfyui_api_status |-> IF engineUp THEN <<200>> ELSE <<"Error">>])
       ELSE debug

Debug(p) ==
    /\ pc[p] = "entry"
    /\ action(p) = "debug"
    /\ \E running \in BOOLEAN : Return(p, get_debug_info(running))
    /\ UNCHANGED <<engineVars, supabase, call, fsVars, countVars, localVars, trace>>

\* Variant: a handler that ignores the validation errors.
StopsNever(errors) == FALSE
\* "if validation_errors:"
StopsOn(errors) == errors # <<>>

ValidationResponse(act, errors) ==
    [status |-> "error", version |-> HANDLER_VERSION, action |-> act,
     error |-> <<"Input validation failed">>, validation_errors |-> errors]

ValidationFailed(p) ==
    /\ pc[p] = "entry"
    /\ action(p) \notin {"health", "debug"}
    /\ LET errors == validate_inputs(action(p), input_data[p], inputDir)
       IN /\ StopsOn(errors)
          /\ Return(p, ValidationResponse(action(p), errors))
    /\ Mark(p, "validate")
    /\ UNCHANGED <<engineVars, supabase, call, fsVars, countVars, localVars>>

\* Variant: a handler that builds the workflow without start_comfyui().
StraightToBuild == "build"
\* what follows a passed validation: "start_comfyui()"
AfterValidation == "start"

ValidationPassed(p) ==
    /\ pc[p] = "entry"
    /\ action(p) \notin {"health", "debug"}
    /\ ~StopsOn(validate_inputs(action(p), input_data[p], inputDir))
    /\ Goto(p, AfterValidation)
    /\ Mark(p, "validate")
    /\ UNCHANGED <<engineVars, supabase, call, fsVars, countVars, localVars, endVars>>

(***************************************************************************)
(* start_comfyui().                                                        *)
(***************************************************************************)
\* Variant: a guard that never sees the handle as held.
HandleNeverHeld(handle) == FALSE
\* "if comfyui_process is not None: return"
HandleHeld(handle) == handle # 0

\* the guard: the handle is held, start_comfyui returns at once
StartReturnsEarly(p) ==
    /\ pc[p] = "start"
    /\ HandleHeld(comfyui_process)
    /\ Goto(p, "build")
    /\ Mark(p, "start")
    /\ UNCHANGED <<engineVars, supabase, call, fsVars, countVars, localVars, endVars>>

\* the guard passed: setup_symlinks() runs, Popen is next
StartGuardPassed(p) ==
    /\ pc[p] = "start"
    /\ ~HandleHeld(comfyui_process)
    /\ Goto(p, "popen")
    /\ Mark(p, "start")
    /\ UNCHANGED <<engineVars, supabase, call, fsVars, countVars, localVars, endVars>>

\* comfyui_process = subprocess.Popen(...)
StartPopen(p) ==
    /\ pc[p] = "popen"
    /\ launches' = launches + 1
    /\ comfyui_process' = launches + 1
    /\ polls' = [polls EXCEPT ![p] = 0]
    /\ Goto(p, "ready_poll")
    /\ Mark(p, "launch")
    /\ UNCHANGED <<engineUp, readyAnswered, supabase, call, fsVars, countVars, input_data,
                   warnings, workflow, prompt_id, history, output_files, results, idx,
                   avatar_filename, last_poll, last_post, endVars>>

\* the engine, once launched, starts listening at some point
EngineComesUp ==
    /\ launches > 0
    /\ ~engineUp
    /\ engineUp' = TRUE
    /\ UNCHANGED <<comfyui_process, launches, readyAnswered, supabase, call, fsVars, countVars,
                   pc, localVars, endVars, trace>>

\* GET /system_stats answers 200: start_comfyui returns
ReadyPollOk(p) ==
    /\ pc[p] = "ready_poll"
    /\ polls[p] < MaxStartupPolls
    /\ engineUp
    /\ readyAnswered' = TRUE
    /\ Goto(p, "build")
    /\ UNCHANGED <<comfyui_process, launches, engineUp, supabase, call, fsVars, countVars,
                   localVars, endVars, trace>>

\* GET /system_stats answers a status other than 200: sleep and try again
ReadyPollRetry(p) ==
    /\ pc[p] = "ready_poll"
    /\ polls[p] < MaxStartupPolls
    /\ engineUp
    /\ polls' = [polls EXCEPT ![p] = @ + 1]
    /\ UNCHANGED <<engineVars, supabase, call, fsVars, countVars, pc, input_data, warnings,
                   workflow, prompt_id, history, output_files, results, idx,
                   avatar_filename, last_poll, last_post, endVars, trace>>

\* nothing listens yet: requests.get raises ConnectionError, which the loop's
\* except clause swallows; sleep and try again
ReadyPollRefused(p) ==
    /\ pc[p] = "ready_poll"
    /\ polls[p] < MaxStartupPolls
    /\ ~engineUp
    /\ IF ReadinessCatches("ConnectionError")
       THEN /\ polls' = [polls EXCEPT ![p] = @ + 1]
            /\ UNCHANGED <<pc, endVars>>
       ELSE /\ Raise(p, Exc("ConnectionError", <<"connection refused">>))
            /\ UNCHANGED polls
    /\ UNCHANGED <<engineVars, supabase, call, fsVars, countVars, input_data, warnings,
                   workflow, prompt_id, history, output_files, results, idx,
                   avatar_filename, last_poll, last_post, trace>>

\* "raise RuntimeError(f"ComfyUI failed to start within {STARTUP_TIMEOUT}s")"
StartupError == Exc("RuntimeError", <<"ComfyUI failed to start within", 120>>)

\* STARTUP_TIMEOUT elapsed: raise RuntimeError
StartupDeadline(p) ==
    /\ pc[p] = "ready_poll"
    /\ polls[p] = MaxStartupPolls
    /\ Raise(p, StartupError)
    /\ UNCHANGED <<engineVars, supabase, call, fsVars, countVars, localVars, trace>>

(***************************************************************************)
(* handler(): building the workflow.                                       *)
(***************************************************************************)
BuildPortrait(p) ==
    /\ pc[p] = "build"
    /\ action(p) = "portrait"
    /\ \E fresh \in UrandomDraws :
         workflow' = [workflow EXCEPT ![p] = build_portrait_workflow(input_data[p], fresh)]
    /\ Goto(p, "queue")
    /\ Mark(p, "build")
    /\ UNCHANGED <<engineVars, supabase, call, fsVars, countVars, input_data, warnings,
                   prompt_id, history, output_files, results, idx, avatar_filename,
                   polls, last_poll, last_post, endVars>>

BuildTts(p) ==
    /\ pc[p] = "build"
    /\ action(p) = "tts"
    /\ \E fresh \in UrandomDraws :
         workflow' = [workflow EXCEPT ![p] = build_tts_workflow(input_data[p], fresh)]
    /\ Goto(p, "queue")
    /\ Mark(p, "build")
    /\ UNCHANGED <<engineVars, supabase, call, fsVars, countVars, input_data, warnings,
                   prompt_id, history, output_files, results, idx, avatar_filename,
                   polls, last_poll, last_post, endVars>>

\* resolve_duration succeeds: the warning (if any) is recorded and the
\* workflow is built with the detected duration
BuildLipsync(p) ==
    /\ pc[p] = "build"
    /\ action(p) = "lipsync"
    /\ \E probe \in ProbeOutcomes, fresh \in UrandomDraws :
         /\ ProbeError(probe).cls = "None"
         /\ LET r == LipsyncBuild(input_data[p], probe, fresh)
            IN /\ warnings' = [warnings EXCEPT ![p] = r.warnings]
               /\ workflow' = [workflow EXCEPT ![p] = r.workflow]
         /\ trace' = [trace EXCEPT ![p] = @ \cup {ProbeStage(probe), "build"}]
    /\ Goto(p, "queue")
    /\ UNCHANGED <<engineVars, supabase, call, fsVars, countVars, input_data,
                   prompt_id, history, output_files, results, idx, avatar_filename,
                   polls, last_poll, last_post, endVars>>

\* get_audio_duration raises
ProbeFailed(p) ==
    /\ pc[p] = "build"
    /\ action(p) = "lipsync"
    /\ \E probe \in ProbeOutcomes :
         /\ ProbeError(probe).cls # "None"
         /\ Raise(p, ProbeError(probe))
         /\ trace' = [trace EXCEPT ![p] = @ \cup {ProbeStage(probe), "probe_failed"}]
    /\ UNCHANGED <<engineVars, supabase, call, fsVars, countVars, localVars>>

UnknownActionResponse(act) ==
    [status |-> "error", version |-> HANDLER_VERSION, error |-> <<"Unknown action", act>>]

UnknownAction(p) ==
    /\ pc[p] = "build"
    /\ action(p) \notin {"portrait", "tts", "lipsync"}
    /\ Return(p, UnknownActionResponse(action(p)))
    /\ UNCHANGED <<engineVars, supabase, call, fsVars, countVars, localVars, trace>>

(***************************************************************************)
(* queue_prompt(workflow).                                                 *)
(***************************************************************************)
\* the status codes and bodies of a rejected POST /prompt
Rejections ==
    { [status_code |-> 400, body |-> <<"invalid_prompt", "node 3">>],
      [status_code |-> 500, body |-> <<"Internal Server Error">>] }

\* Variant: a queue_prompt that raises on no status code.
NoQueueError(r) == NoException
\* "if response.status_code != 200: raise RuntimeError(...)"
QueueError(r) ==
    IF r.status_code # 200
    THEN Exc("RuntimeError", <<"ComfyUI error", r.status_code, r.body>>)
    ELSE NoException

\* POST /prompt answers 200 with a prompt_id
QueueAccepted(p) ==
    /\ pc[p] = "queue"
    /\ engineUp
    /\ LET r == [status_code |-> 200, body |-> <<"prompt_id", jobs + 1>>]
       IN /\ QueueError(r).cls = "None"
          /\ prompt_id' = [prompt_id EXCEPT ![p] = r.body[2]]
          /\ last_post' = [last_post EXCEPT ![p] = r]
    /\ jobs' = jobs + 1
    /\ workflow' = [workflow EXCEPT ![p] = <<>>]
    /\ polls' = [polls EXCEPT ![p] = 0]
    /\ Goto(p, "wait")
    /\ Mark(p, "submit")
    /\ UNCHANGED <<engineVars, supabase, call, fsVars, received, input_data, warnings,
                   history, output_files, results, idx, avatar_filename, last_poll,
                   endVars>>

\* POST /prompt answers another status
QueueRejected(p) ==
    /\ pc[p] = "queue"
    /\ engineUp
    /\ \E r \in Rejections :
         /\ last_post' = [last_post EXCEPT ![p] = r]
         /\ IF QueueError(r).cls # "None"
            THEN Raise(p, QueueError(r))
            ELSE \* r.json()["prompt_id"] of a body without one
                 Raise(p, Exc("KeyError", <<"prompt_id">>))
    /\ UNCHANGED <<prompt_id, polls>>
    /\ workflow' = [workflow EXCEPT ![p] = <<>>]
    /\ Mark(p, "submit")
    /\ UNCHANGED <<engineVars, supabase, call, fsVars, countVars, input_data, warnings,
                   history, output_files, results, idx, avatar_filename, last_poll>>

\* nothing listens: requests.post raises ConnectionError
QueueRefused(p) ==
    /\ pc[p] = "queue"
    /\ ~engineUp
    /\ Raise(p, Exc("ConnectionError", <<"connection refused">>))
    /\ workflow' = [workflow EXCEPT ![p] = <<>>]
    /\ Mark(p, "submit")
    /\ UNCHANGED <<engineVars, supabase, call, fsVars, countVars, input_data, warnings,
                   prompt_id, polls, history, output_files, results, idx,
                   avatar_filename, last_poll, last_post>>

(***************************************************************************)
(* wait_for_completion(prompt_id).                                         *)
(***************************************************************************)
\* the engine finishes the job: it writes some of the files it reports
EngineWrites(h) ==
    \E written \in SUBSET PathsOf(get_output_files(h)) :
      outputDir' = outputDir \cup written

\* Variant: a wait_for_completion that returns on any answer.
PollAlwaysReturns(status_code, present) == TRUE
\* "if response.status_code == 200: ... if prompt_id in history: return"
PollReturns(status_code, present) == status_code = 200 /\ present

\* GET /history/<id> answers 200 with an entry for the job
HistoryReady(p) ==
    /\ pc[p] = "wait"
    /\ polls[p] < MaxHistoryPolls
    /\ PollReturns(200, TRUE)
    /\ \E h \in Histories(prompt_id[p]) :
         /\ history' = [history EXCEPT ![p] = h]
         /\ EngineWrites(h)
    /\ last_poll' = [last_poll EXCEPT ![p] = "entry"]
    /\ polls' = [polls EXCEPT ![p] = 0]
    /\ Goto(p, "status")
    /\ Mark(p, "poll")
    /\ UNCHANGED <<engineVars, supabase, call, inputDir, countVars, input_data, warnings,
                   workflow, prompt_id, output_files, results, idx, avatar_filename,
                   last_post, endVars>>

\* GET /history/<id> answers a non-200 status, or 200 without the entry
HistoryPending(p) ==
    /\ pc[p] = "wait"
    /\ polls[p] < MaxHistoryPolls
    /\ \E r \in { [status_code |-> 200, present |-> FALSE, kind |-> "no_entry"],
                  [status_code |-> 404, present |-> FALSE, kind |-> "non_200"],
                  [status_code |-> 500, present |-> TRUE, kind |-> "non_200"] } :
         IF PollReturns(r.status_code, r.present)
         THEN \* returns history[prompt_id] of a response that has no such entry
              /\ history' = [history EXCEPT ![p] = [prompt |-> "partial"]]
              /\ last_poll' = [last_poll EXCEPT ![p] = r.kind]
              /\ Goto(p, "status")
              /\ polls' = [polls EXCEPT ![p] = 0]
         ELSE /\ polls' = [polls EXCEPT ![p] = @ + 1]
              /\ last_poll' = [last_poll EXCEPT ![p] = r.kind]
              /\ UNCHANGED <<pc, history>>
    /\ Mark(p, "poll")
    /\ UNCHANGED <<engineVars, supabase, call, fsVars, countVars, input_data, warnings,
                   workflow, prompt_id, output_files, results, idx, avatar_filename,
                   last_post, endVars>>

\* requests.get raises (the engine went away)
HistoryRefused(p) ==
    /\ pc[p] = "wait"
    /\ polls[p] < MaxHistoryPolls
    /\ Raise(p, Exc("ConnectionError", <<"connection refused">>))
    /\ last_poll' = [last_poll EXCEPT ![p] = "refused"]
    /\ Mark(p, "poll")
    /\ UNCHANGED <<engineVars, supabase, call, fsVars, countVars, input_data, warnings,
                   workflow, prompt_id, history, output_files, results, idx,
                   avatar_filename, polls, last_post>>

\* the engine accepts the connection and never answers: requests.get is
\* called without a timeout and does not return
HistoryUnanswered(p) ==
    /\ pc[p] = "wait"
    /\ polls[p] < MaxHistoryPolls
    /\ Goto(p, "blocked")
    /\ last_poll' = [last_poll EXCEPT ![p] = "unanswered"]
    /\ Mark(p, "poll")
    /\ UNCHANGED <<engineVars, supabase, call, fsVars, countVars, input_data, warnings,
                   workflow, prompt_id, history, output_files, results, idx,
                   avatar_filename, polls, last_post, endVars>>

\* "raise TimeoutError(f"Workflow did not complete within {timeout}s")"
CompletionTimeout == Exc("TimeoutError", <<"Workflow did not complete within", 300>>)

\* the timeout elapsed: raise TimeoutError
HistoryTimeout(p) ==
    /\ pc[p] = "wait"
    /\ polls[p] = MaxHistoryPolls
    /\ Raise(p, CompletionTimeout)
    /\ UNCHANGED <<engineVars, supabase, call, fsVars, countVars, localVars, trace>>

(***************************************************************************)
(* handler(): the status check and output extraction.                      *)
(***************************************************************************)
status_info(h) == Get(h, "status", EmptyDict)
status_str(h) == Get(status_info(h), "status_str", "unknown")

\* Variant: a status check that fails the job only on status_str "error".
FailedOnlyOnError(h) == status_str(h) = "error"
\* "if status_str != 'success':"
WorkflowHasFailed(h) == status_str(h) # "success"

\* error_msg: the messages are appended when there are some
FailedMessage(h) ==
    LET messages == Get(status_info(h), "messages", <<>>)
    IN IF messages # <<>>
       THEN <<"Workflow failed with status", status_str(h), "messages", messages>>
       ELSE <<"Workflow failed with status", status_str(h)>>

FailedResponse(act, pid, h) ==
    [status |-> "error", version |-> HANDLER_VERSION, action |-> act,
     error |-> FailedMessage(h),
     prompt_id |-> pid,
     raw_status |-> status_info(h),
     raw_outputs |-> Get(h, "outputs", <<>>)]

WorkflowFailed(p) ==
    /\ pc[p] = "status"
    /\ WorkflowHasFailed(history[p])
    /\ Return(p, FailedResponse(action(p), prompt_id[p], history[p]))
    /\ UNCHANGED <<engineVars, supabase, call, fsVars, countVars, localVars, trace>>

\* Variant: a handler that never takes the list of files to be empty.
NeverEmpty(files) == FALSE
\* "if not output_files:"
NoFiles(files) == files = <<>>

NoOutputResponse(act, pid, h) ==
    [status |-> "error", version |-> HANDLER_VERSION, action |-> act,
     error |-> <<"Workflow produced no output files">>,
     prompt_id |-> pid,
     raw_outputs |-> Get(h, "outputs", <<>>)]

NoOutput(p) ==
    /\ pc[p] = "status"
    /\ ~WorkflowHasFailed(history[p])
    /\ NoFiles(get_output_files(history[p]))
    /\ output_files' = [output_files EXCEPT ![p] = get_output_files(history[p])]
    /\ Return(p, NoOutputResponse(action(p), prompt_id[p], history[p]))
    /\ Mark(p, "extract")
    /\ UNCHANGED <<engineVars, supabase, call, fsVars, countVars, input_data, warnings,
                   workflow, prompt_id, history, results, idx, avatar_filename,
                   polls, last_poll, last_post>>

\* the truthiness of input_data.get("save_to_avatars")
WantsAvatar(p) == action(p) = "portrait" /\ Get(input_data[p], "save_to_avatars", FALSE)

Extracted(p) ==
    /\ pc[p] = "status"
    /\ ~WorkflowHasFailed(history[p])
    /\ ~NoFiles(get_output_files(history[p]))
    /\ output_files' = [output_files EXCEPT ![p] = get_output_files(history[p])]
    /\ idx' = [idx EXCEPT ![p] = 1]
    /\ Goto(p, IF WantsAvatar(p) THEN "avatar" ELSE "deliver")
    /\ Mark(p, "extract")
    /\ UNCHANGED <<engineVars, supabase, call, fsVars, countVars, input_data, warnings,
                   workflow, prompt_id, history, results, avatar_filename,
                   polls, last_poll, last_post, endVars>>

\* save_to_avatars: the first image output that exists is copied under
\* COMFYUI_INPUT/avatars (no event carries avatar_name, so the name is the
\* default "generated_portrait.png")
SaveAvatar(p) ==
    /\ pc[p] = "avatar"
    /\ LET files == output_files[p]
           images == { i \in DOMAIN files :
                         files[i]["type"] = "image" /\ files[i]["path"] \in outputDir }
       IN IF images # {}
          THEN /\ inputDir' = inputDir \cup {"avatars/generated_portrait.png"}
               /\ avatar_filename' = [avatar_filename EXCEPT ![p] =
                                        "avatars/generated_portrait.png"]
          ELSE UNCHANGED <<inputDir, avatar_filename>>
    /\ Goto(p, "deliver")
    /\ UNCHANGED <<engineVars, supabase, call, outputDir, countVars, input_data, warnings,
                   workflow, prompt_id, history, output_files, results, idx,
                   polls, last_poll, last_post, endVars, trace>>

(***************************************************************************)
(* handler(): the delivery loop, one iteration per action.                 *)
(***************************************************************************)
file_info(p) == output_files[p][idx[p]]

InLoop(p) == pc[p] = "deliver" /\ idx[p] <= Len(output_files[p])

\* result = {"type": ..., "filename": ...}
BaseResult(f) == [type |-> f["type"], filename |-> f["filename"]]

\* f"outputs/{today}/{unique_id}/{filename}" (the date and the random id are
\* not modelled)
RemotePath(f) == <<"outputs", f["filename"]>>

\* what upload_to_supabase returns; signed is sign_response.status_code == 200
UploadResult(f, size, signed) ==
    [url |-> <<"public", RemotePath(f)>>,
     signed_url |-> IF signed THEN <<"signed", RemotePath(f)>> ELSE <<"None">>,
     path |-> RemotePath(f),
     size |-> size]

\* file_to_base64(path)
file_to_base64(path) == <<"base64", path>>

\* the inline fields
Inline(path) == [data |-> file_to_base64(path), encoding |-> "base64"]

\* Variant: the result is recorded and the loop stays on the same file.
AppendAndStay(p, result) ==
    /\ results' = [results EXCEPT ![p] = Append(@, result)]
    /\ idx' = idx

\* "results.append(result)" and the next iteration of the for loop
Append1(p, result) ==
    /\ results' = [results EXCEPT ![p] = Append(@, result)]
    /\ idx' = [idx EXCEPT ![p] = @ + 1]

\* "if not os.path.exists(file_path): continue"
DeliverSkipMissing(p) ==
    /\ InLoop(p)
    /\ file_info(p)["path"] \notin outputDir
    /\ idx' = [idx EXCEPT ![p] = @ + 1]
    /\ Mark(p, "deliver")
    /\ UNCHANGED <<engineVars, supabase, call, fsVars, countVars, pc, input_data, warnings,
                   workflow, prompt_id, history, output_files, results,
                   avatar_filename, polls, last_poll, last_post, endVars>>

\* Supabase configured, the upload succeeds
DeliverUploaded(p) ==
    /\ InLoop(p)
    /\ file_info(p)["path"] \in outputDir
    /\ supabase
    /\ \E signed \in BOOLEAN :
         Append1(p, Update(BaseResult(file_info(p)),
                           UploadResult(file_info(p), getsize(file_info(p)["path"]), signed)))
    /\ Mark(p, "upload")
    /\ UNCHANGED <<engineVars, supabase, call, fsVars, countVars, pc, input_data, warnings,
                   workflow, prompt_id, history, output_files,
                   avatar_filename, polls, last_poll, last_post, endVars>>

\* Variant: a fallback that reports the local path and size as well.
FallbackWithPath(f, e) ==
    Update(Inline(f["path"]),
           [upload_error |-> e.msg, path |-> f["path"], size_bytes |-> getsize(f["path"])])
\* the except branch of the upload: data, encoding and upload_error
Fallback(f, e) == Update(Inline(f["path"]), [upload_error |-> e.msg])

\* what upload_to_supabase may raise: a status of 400 or more, or a
\* connection that fails
UploadFailures ==
    { Exc("RuntimeError", <<"Supabase upload failed", 400>>),
      Exc("ConnectionError", <<"Connection refused">>) }

\* Variant: an upload whose failure is not handled in the loop.
UploadCatchesNothing(cls) == FALSE
\* "except Exception as e:" around the upload
UploadCatches(cls) == IsInstance(cls, "Exception")

\* Supabase configured, upload_to_supabase raises: base64 fallback
DeliverUploadFailed(p) ==
    /\ InLoop(p)
    /\ file_info(p)["path"] \in outputDir
    /\ supabase
    /\ \E e \in UploadFailures :
         IF UploadCatches(e.cls)
         THEN /\ Append1(p, Update(BaseResult(file_info(p)), Fallback(file_info(p), e)))
              /\ UNCHANGED <<pc, input_data, warnings, workflow, prompt_id, history,
                             output_files, avatar_filename, polls, last_poll, last_post,
                             endVars>>
         ELSE /\ Raise(p, e)
              /\ UNCHANGED localVars
    /\ Mark(p, "upload_failed")
    /\ UNCHANGED <<engineVars, supabase, call, fsVars, countVars>>

\* Variant: the comparison is turned around.
InlineOverCeiling(size) == size > InlineCeiling
\* Variant: every file is encoded inline, whatever its size.
InlineWhateverSize(size) == TRUE
\* "if file_size < 10 * 1024 * 1024:"
InlineAllowed(size) == size < InlineCeiling

\* no Supabase, the file is under the ceiling: inline base64
DeliverInline(p) ==
    /\ InLoop(p)
    /\ file_info(p)["path"] \in outputDir
    /\ ~supabase
    /\ InlineAllowed(getsize(file_info(p)["path"]))
    /\ Append1(p, Update(BaseResult(file_info(p)), Inline(file_info(p)["path"])))
    /\ Mark(p, "inline")
    /\ UNCHANGED <<engineVars, supabase, call, fsVars, countVars, pc, input_data, warnings,
                   workflow, prompt_id, history, output_files,
                   avatar_filename, polls, last_poll, last_post, endVars>>

\* no Supabase, the file is at or over the ceiling: path and size only
DeliverPathOnly(p) ==
    /\ InLoop(p)
    /\ file_info(p)["path"] \in outputDir
    /\ ~supabase
    /\ ~InlineAllowed(getsize(file_info(p)["path"]))
    /\ Append1(p, Update(BaseResult(file_info(p)),
                         [path |-> file_info(p)["path"],
                          size_bytes |-> getsize(file_info(p)["path"])]))
    /\ Mark(p, "path_only")
    /\ UNCHANGED <<engineVars, supabase, call, fsVars, countVars, pc, input_data, warnings,
                   workflow, prompt_id, history, output_files,
                   avatar_filename, polls, last_poll, last_post, endVars>>

\* file_to_base64 raises (the file cannot be read), in the no-Supabase branch
\* or inside the upload's except branch: the exception leaves the loop
DeliverEncodeFailed(p) ==
    /\ InLoop(p)
    /\ file_info(p)["path"] \in outputDir
    /\ supabase \/ InlineAllowed(getsize(file_info(p)["path"]))
    /\ Raise(p, Exc("PermissionError", <<"Permission denied", file_info(p)["path"]>>))
    /\ Mark(p, "encode_failed")
    /\ UNCHANGED <<engineVars, supabase, call, fsVars, countVars, localVars>>

\* the loop is over
DeliverDone(p) ==
    /\ pc[p] = "deliver"
    /\ idx[p] > Len(output_files[p])
    /\ Goto(p, IF supabase THEN "cleanup" ELSE "respond")
    /\ UNCHANGED <<engineVars, supabase, call, fsVars, countVars, localVars, endVars, trace>>

(***************************************************************************)
(* cleanup_output_files(output_files) and the success response.            *)
(***************************************************************************)
\* Variant: a cleanup that empties the output directory.
WholeOutputDir(files) == outputDir
\* the files cleanup_output_files is handed: "cleanup_output_files(output_files)"
CleanupTargets(files) == PathsOf(files)

\* os.remove on each file that exists; a removal may raise OSError, which is
\* logged and skipped
Cleanup(p) ==
    /\ pc[p] = "cleanup"
    /\ LET targets == CleanupTargets(output_files[p]) \cap outputDir
       IN \E failed \in SUBSET targets :
            /\ outputDir' = outputDir \ (targets \ failed)
            /\ IF failed = {}
               THEN /\ Mark(p, "cleanup")
                    /\ Goto(p, "respond")
                    /\ UNCHANGED endVars
               ELSE IF CleanupCatches("PermissionError")
                    THEN /\ trace' = [trace EXCEPT ![p] = @ \cup {"cleanup", "remove_failed"}]
                         /\ Goto(p, "respond")
                         /\ UNCHANGED endVars
                    ELSE /\ Mark(p, "cleanup")
                         /\ Raise(p, Exc("PermissionError", <<"Permission denied">>))
    /\ UNCHANGED <<engineVars, supabase, call, inputDir, countVars, localVars>>

\* Variant: a response that reports the failed uploads as warnings.
SuccessWithUploadWarnings(p) ==
    LET base == [status |-> "success", version |-> HANDLER_VERSION, action |-> action(p),
                 files |-> results[p], prompt_id |-> prompt_id[p],
                 storage |-> IF supabase THEN "supabase" ELSE "base64"]
        failed == { k \in DOMAIN results[p] : "upload_error" \in DOMAIN results[p][k] }
    IN IF warnings[p] # <<>> \/ failed # {}
       THEN Update(base, [warnings |-> warnings[p]])
       ELSE base

\* the success response: warnings, avatar_saved and lipsync_ready are added
\* when there are some
SuccessResponse(p) ==
    LET base == [status |-> "success", version |-> HANDLER_VERSION, action |-> action(p),
                 files |-> results[p], prompt_id |-> prompt_id[p],
                 storage |-> IF supabase THEN "supabase" ELSE "base64"]
        warned == IF warnings[p] # <<>>
                  THEN Update(base, [warnings |-> warnings[p]])
                  ELSE base
    IN IF avatar_filename[p] # "None"
       THEN Update(warned, [avatar_saved |-> avatar_filename[p], lipsync_ready |-> TRUE])
       ELSE warned

Respond(p) ==
    /\ pc[p] = "respond"
    /\ Return(p, SuccessResponse(p))
    /\ UNCHANGED <<engineVars, supabase, call, fsVars, countVars, localVars, trace>>

(***************************************************************************)
(* Specifications.                                                         *)
(***************************************************************************)
Step(p) ==
    \/ Receive(p)
    \/ Health(p)
    \/ Debug(p)
    \/ ValidationFailed(p)
    \/ ValidationPassed(p)
    \/ StartReturnsEarly(p)
    \/ StartGuardPassed(p)
    \/ StartPopen(p)
    \/ ReadyPollOk(p)
    \/ ReadyPollRetry(p)
    \/ ReadyPollRefused(p)
    \/ StartupDeadline(p)
    \/ BuildPortrait(p)
    \/ BuildTts(p)
    \/ BuildLipsync(p)
    \/ ProbeFailed(p)
    \/ UnknownAction(p)
    \/ QueueAccepted(p)
    \/ QueueRejected(p)
    \/ QueueRefused(p)
    \/ HistoryReady(p)
    \/ HistoryPending(p)
    \/ HistoryRefused(p)
    \/ HistoryUnanswered(p)
    \/ HistoryTimeout(p)
    \/ WorkflowFailed(p)
    \/ NoOutput(p)
    \/ Extracted(p)
    \/ SaveAvatar(p)
    \/ DeliverSkipMissing(p)
    \/ DeliverUploaded(p)
    \/ DeliverUploadFailed(p)
    \/ DeliverInline(p)
    \/ DeliverPathOnly(p)
    \/ DeliverEncodeFailed(p)
    \/ DeliverDone(p)
    \/ Cleanup(p)
    \/ Respond(p)

\* one worker: a request is handled to completion before the next is received
Next == Step("w1") \/ EngineComesUp

Spec == Init /\ [][Next]_vars

\* two workers run handler() concurrently, each on a portrait request
ConcurrentEvents == { [description |-> "A portrait"] }

ReceiveConcurrent(p) == ReceiveFrom(p, ConcurrentEvents)

StepConcurrent(p) ==
    \/ ReceiveConcurrent(p)
    \/ ValidationPassed(p)
    \/ StartReturnsEarly(p)
    \/ StartGuardPassed(p)
    \/ StartPopen(p)
    \/ ReadyPollOk(p)
    \/ ReadyPollRetry(p)
    \/ ReadyPollRefused(p)
    \/ StartupDeadline(p)
    \/ BuildPortrait(p)
    \/ QueueAccepted(p)
    \/ QueueRejected(p)
    \/ QueueRefused(p)
    \/ HistoryReady(p)
    \/ HistoryPending(p)
    \/ HistoryRefused(p)
    \/ HistoryUnanswered(p)
    \/ HistoryTimeout(p)
    \/ WorkflowFailed(p)
    \/ NoOutput(p)
    \/ Extracted(p)
    \/ DeliverSkipMissing(p)
    \/ DeliverUploaded(p)
    \/ DeliverUploadFailed(p)
    \/ DeliverInline(p)
    \/ DeliverPathOnly(p)
    \/ DeliverEncodeFailed(p)
    \/ DeliverDone(p)
    \/ Cleanup(p)
    \/ Respond(p)

NextConcurrent == (\E p \in Procs : StepConcurrent(p)) \/ EngineComesUp

SpecConcurrent == Init /\ [][NextConcurrent]_vars

\* one worker serving portrait requests whose thread keeps running: a step of
\* handler() that can be taken is taken; nothing makes the engine come up
NextFair == StepConcurrent("w1") \/ EngineComesUp

SpecFair == Init /\ [][NextFair]_vars /\ WF_vars(StepConcurrent("w1"))

\* two workers share OUTPUT_DIR, each handling one portrait request, against
\* an engine that answers every call (no refused connection, no non-terminal
\* answer, no deadline)
ReceiveOnce(p) ==
    /\ pc[p] = "idle"
    /\ ReceiveConcurrent(p)

StepShared(p) ==
    \/ ReceiveOnce(p)
    \/ ValidationPassed(p)
    \/ StartReturnsEarly(p)
    \/ StartGuardPassed(p)
    \/ StartPopen(p)
    \/ ReadyPollOk(p)
    \/ BuildPortrait(p)
    \/ QueueAccepted(p)
    \/ HistoryReady(p)
    \/ WorkflowFailed(p)
    \/ NoOutput(p)
    \/ Extracted(p)
    \/ DeliverSkipMissing(p)
    \/ DeliverUploaded(p)
    \/ DeliverUploadFailed(p)
    \/ DeliverInline(p)
    \/ DeliverPathOnly(p)
    \/ DeliverEncodeFailed(p)
    \/ DeliverDone(p)
    \/ Cleanup(p)
    \/ Respond(p)

NextShared == (\E p \in Procs : StepShared(p)) \/ EngineComesUp

SpecShared == Init /\ [][NextShared]_vars

(***************************************************************************)
(* Direct calls of validate_inputs, resolve_duration, the builders and     *)
(* get_output_files, as the unit tests make them: the arguments are drawn  *)
(* from the sets below, and a builder is invoked up to MaxCalls times on   *)
(* the same arguments.                                                     *)
(***************************************************************************)
MaxCalls == 2

\* a parameter the caller leaves out
Absent == "absent"

\* the dict of the parameters that are supplied
Supplied(d) == [k \in {key \in DOMAIN d : d[key] # Absent} |-> d[k]]

\* lipsync references: left out, empty, missing or present under
\* COMFYUI_INPUT, or an absolute name
LipsyncRefParams ==
    { Supplied([portrait_image |-> i, audio |-> a]) :
        i \in {Absent, "", "missing.png", "portrait.png", "/etc/hostname", "/etc/missing.png"},
        a \in {Absent, "", "missing.wav", "speech.wav", "/etc/hostname"} }

TtsRefParams ==
    { Supplied([text |-> t, voice_sample |-> v]) :
        t \in {Absent, "", "Hello"},
        v \in {Absent, "", "missing.wav", "voices/sample.wav", "/etc/hostname"} }

ValidateCalls ==
    { [fn |-> "validate_inputs", action |-> a, params |-> ps, out |-> <<>>] :
        a \in {"lipsync", "tts", "portrait", "upscale"},
        ps \in LipsyncRefParams \cup TtsRefParams }

\* the probes that yield a duration
DurationProbes == { probe \in ProbeOutcomes : ProbeError(probe).cls = "None" }

\* caller_duration: None, 0.0 or 10.0
HintParams == { <<>>, [duration |-> 0], [duration |-> 100] }

ResolveCalls ==
    { [fn |-> "resolve_duration", probe |-> probe, params |-> ps, out |-> <<>>] :
        probe \in DurationProbes, ps \in HintParams }

\* seeds: -1, 12345, -5, 2^31 - 2, 2^31 - 1, 2^32, 2^32 + 5 and -5 * 2^30 + 7
SeedSamples ==
    { MinusOne, Big(0, 12345), Big(-1, Limb - 5), Big(1, Limb - 2), Big(1, Limb - 1),
      Big(4, 0), Big(4, 5), Big(-5, 7) }

SeedParams == { <<>> } \cup { [seed |-> v] : v \in SeedSamples }

BuilderCalls ==
    { [fn |-> f, params |-> ps, out |-> <<>>] :
        f \in {"build_portrait_workflow", "build_tts_workflow"}, ps \in SeedParams }
    \cup
    { [fn |-> "build_lipsync_workflow", params |-> ps, probe |-> probe, out |-> <<>>] :
        ps \in SeedParams \cup {[duration |-> 100]}, probe \in DurationProbes }

\* the keys a node's result entry may carry; "text" is one that
\* get_output_files does not know
OutputKeys == {"images", "gifs", "videos", "audio", "text"}

\* count items under a key of a node, each with a filename of its own
ItemsUnder(node_id, key, count) ==
    [ k \in 1..count |-> [filename |-> <<node_id, key, k>>, subfolder |-> "", type |-> "output"] ]

\* result entries of a node: any set of keys, each with 0, 1 or 2 items
NodeOutputs(node_id) ==
    { [ key \in keys |-> ItemsUnder(node_id, key, count) ] :
        keys \in SUBSET OutputKeys, count \in 0..2 }

\* job results with no, one or two nodes, or without the outputs key
ExtractHistories ==
    { [status |-> SuccessStatus] }
    \cup { [status |-> SuccessStatus, outputs |-> <<>>] }
    \cup { [status |-> SuccessStatus, outputs |-> << <<"7", o>> >>] : o \in NodeOutputs("7") }
    \cup { [status |-> SuccessStatus, outputs |-> << <<"7", o>>, <<"9", q>> >>] :
             o \in NodeOutputs("7"),
             q \in { r \in NodeOutputs("9") : DOMAIN r \in {{"images"}, {"audio", "text"}, {}} } }

ExtractCalls ==
    { [fn |-> "get_output_files", history |-> h, out |-> <<>>] : h \in ExtractHistories }

workerVars == <<engineVars, supabase, fsVars, countVars, pc, localVars, endVars, trace>>

\* errors = validate_inputs(action, params)
CallValidate ==
    /\ call.fn = "validate_inputs"
    /\ call.out = <<>>
    /\ call' = [call EXCEPT !.out = <<validate_inputs(call.action, call.params, inputDir)>>]
    /\ UNCHANGED workerVars

\* duration, warning = resolve_duration(audio_path, caller_duration)
CallResolve ==
    /\ call.fn = "resolve_duration"
    /\ call.out = <<>>
    /\ call' = [call EXCEPT !.out =
                  <<resolve_duration(ParseDuration(call.probe.stdout), call.params)>>]
    /\ UNCHANGED workerVars

\* workflow = build_portrait_workflow(params)
CallBuildPortrait ==
    /\ call.fn = "build_portrait_workflow"
    /\ Len(call.out) < MaxCalls
    /\ \E fresh \in UrandomDraws :
         call' = [call EXCEPT !.out =
                    Append(@, [fresh |-> fresh,
                               graph |-> build_portrait_workflow(call.params, fresh)])]
    /\ UNCHANGED workerVars

\* workflow = build_tts_workflow(params)
CallBuildTts ==
    /\ call.fn = "build_tts_workflow"
    /\ Len(call.out) < MaxCalls
    /\ \E fresh \in UrandomDraws :
         call' = [call EXCEPT !.out =
                    Append(@, [fresh |-> fresh,
                               graph |-> build_tts_workflow(call.params, fresh)])]
    /\ UNCHANGED workerVars

\* the lipsync branch of handler: resolve_duration, then
\* build_lipsync_workflow(params, audio_duration)
CallBuildLipsync ==
    /\ call.fn = "build_lipsync_workflow"
    /\ Len(call.out) < MaxCalls
    /\ \E fresh \in UrandomDraws :
         call' = [call EXCEPT !.out =
                    Append(@, [fresh |-> fresh,
                               graph |-> LipsyncBuild(call.params, call.probe, fresh).workflow])]
    /\ UNCHANGED workerVars

\* files = get_output_files(history)
CallExtract ==
    /\ call.fn = "get_output_files"
    /\ call.out = <<>>
    /\ call' = [call EXCEPT !.out = <<get_output_files(call.history)>>]
    /\ UNCHANGED workerVars

InitCalls ==
    /\ InitWorker
    /\ call \in ValidateCalls \cup ResolveCalls \cup BuilderCalls \cup ExtractCalls

NextCalls ==
    \/ CallValidate
    \/ CallResolve
    \/ CallBuildPortrait
    \/ CallBuildTts
    \/ CallBuildLipsync
    \/ CallExtract

SpecCalls == InitCalls /\ [][NextCalls]_vars

(***************************************************************************)
(* Properties.                                                             *)
(***************************************************************************)
\* the stages that deliver, upload or clean up
DeliveryStages == {"deliver", "upload", "upload_failed", "inline", "path_only",
                   "encode_failed", "cleanup", "remove_failed"}

\* the stages that touch the engine or build a workflow
EngineStages == {"start", "launch", "build", "probe_failed", "submit", "poll"}

\* the local path of the file a result of worker p was made from
LocalPathOf(p, result) ==
    LET i == CHOOSE j \in DOMAIN output_files[p] :
               output_files[p][j]["filename"] = result["filename"]
    IN output_files[p][i]["path"]

\* the history entry reports success
ReportsSuccess(h) ==
    /\ "status" \in DOMAIN h
    /\ "status_str" \in DOMAIN h["status"]
    /\ h["status"]["status_str"] = "success"

\* C1: when two requests call start_comfyui concurrently while no handle is
\* held, the engine process is launched at most once (checked under
\* SpecConcurrent; the code has no lock around the check and the Popen)
C1_SingleLaunch == launches <= 1

\* C2: with Supabase configured, a file whose upload failed carries both the
\* inline base64 payload and the upload_error annotation, and once the request
\* has finished its local file is still there (cleanup never deletes a file
\* that fell back to inline)
C2_FallbackFileKept ==
    \A p \in Procs :
      \A k \in DOMAIN results[p] :
        "upload_error" \in DOMAIN results[p][k] =>
          /\ supabase
          /\ "data" \in DOMAIN results[p][k]
          /\ "encoding" \in DOMAIN results[p][k]
          /\ LocalPathOf(p, results[p][k]) \in outputDir

\* C3: a graph is submitted only if the readiness endpoint has answered 200
\* at least once since the process was launched, also for a request that
\* follows one whose startup deadline elapsed
C3_SubmitOnlyWhenReady ==
    \A p \in Procs : "submit" \in trace[p] => readyAnswered

\* C4: a request whose validation list is non-empty stops there: the response
\* has status error and carries exactly that list, and the engine is not
\* launched, no graph is built and nothing is submitted
C4_ValidationStops ==
    \A p \in Procs :
      LET errors == validate_inputs(action(p), input_data[p], inputDir)
      IN (pc[p] \notin {"idle", "entry"} /\ action(p) \notin {"health", "debug"}
            /\ errors # <<>>) =>
           /\ pc[p] = "done"
           /\ outcome[p] = "returned"
           /\ response[p]["status"] = "error"
           /\ "validation_errors" \in DOMAIN response[p]
           /\ response[p]["validation_errors"] = errors
           /\ trace[p] \cap EngineStages = {}
           /\ workflow[p] = <<>>
           /\ prompt_id[p] = 0

\* C4 witness: a lipsync request without portrait and audio ended with the two
\* validation errors
C4_Witness ==
    \E p \in Procs :
      /\ pc[p] = "done"
      /\ action(p) = "lipsync"
      /\ "validation_errors" \in DOMAIN response[p]
      /\ Len(response[p]["validation_errors"]) = 2
      /\ launches = 0

\* C5: every response handler returns has a status field whose value is
\* success or error, for every action
C5_StatusSuccessOrError ==
    \A p \in Procs :
      outcome[p] = "returned" =>
        /\ "status" \in DOMAIN response[p]
        /\ response[p]["status"] \in {"success", "error"}

\* C6 as claimed: every failure raised in a pipeline stage, a failed removal
\* in cleanup included, ends the request with a status error response
C6_EveryFailureIsAnErrorResponse ==
    \A p \in Procs :
      (pc[p] = "done" /\ (raised[p].cls # "None" \/ "remove_failed" \in trace[p])) =>
        /\ outcome[p] = "returned"
        /\ response[p]["status"] = "error"
        /\ "error" \in DOMAIN response[p]

\* C6 as amended: every exception that leaves a pipeline stage (startup
\* deadline, duration probe, submission rejection, polling timeout, encoding)
\* is caught by handler and mapped to a status error response carrying its
\* message, and handler never propagates an exception; a failed removal in
\* cleanup is swallowed inside cleanup_output_files and raises nothing
C6_ExceptionsBecomeErrorResponses ==
    \A p \in Procs :
      /\ outcome[p] # "raised"
      /\ raised[p].cls # "None" =>
           /\ pc[p] = "done"
           /\ outcome[p] = "returned"
           /\ response[p]["status"] = "error"
           /\ "error" \in DOMAIN response[p]
           /\ response[p]["error"] = raised[p].msg
      /\ "remove_failed" \in trace[p] => raised[p].cls = "None"

\* C6 witness: a polling timeout (a TimeoutError, not a RuntimeError) ended
\* the request with an error response
C6_Witness ==
    \E p \in Procs :
      /\ pc[p] = "done"
      /\ raised[p].cls = "TimeoutError"
      /\ response[p]["status"] = "error"

\* C7: when the job reports success but extraction yields no descriptor, the
\* request ends with the error "no output files", and no delivery, upload or
\* cleanup step runs
C7_NoOutputIsAnError ==
    \A p \in Procs :
      (pc[p] # "status" /\ "prompt" \in DOMAIN history[p]
         /\ ReportsSuccess(history[p]) /\ get_output_files(history[p]) = <<>>) =>
        /\ pc[p] = "done"
        /\ outcome[p] = "returned"
        /\ response[p]["status"] = "error"
        /\ response[p]["error"] = <<"Workflow produced no output files">>
        /\ trace[p] \cap DeliveryStages = {}
        /\ results[p] = <<>>

\* C7 witness: a successful job whose only output key is unknown ended in the
\* no-output error
C7_Witness ==
    \E p \in Procs :
      /\ pc[p] = "done"
      /\ ReportsSuccess(history[p])
      /\ Get(history[p], "outputs", <<>>) # <<>>
      /\ response[p]["error"] = <<"Workflow produced no output files">>

C9_FailedJobIsAnError ==
    \A p \in Procs :
      (pc[p] # "status" /\ "prompt" \in DOMAIN history[p]
         /\ ~ReportsSuccess(history[p])) =>
        /\ pc[p] = "done"
        /\ outcome[p] = "returned"
        /\ response[p]["status"] = "error"
        /\ "raw_status" \in DOMAIN response[p]
        /\ response[p]["raw_status"] = Get(history[p], "status", EmptyDict)
        /\ LET messages == Get(Get(history[p], "status", EmptyDict), "messages", <<>>)
           IN messages # <<>> => response[p]["error"][4] = messages
        /\ trace[p] \cap (DeliveryStages \cup {"extract"}) = {}
        /\ output_files[p] = <<>>
        /\ results[p] = <<>>

\* C9 witness: an entry with no status information ended the request with the
\* error response, although it lists an image
C9_Witness ==
    \E p \in Procs :
      /\ pc[p] = "done"
      /\ "prompt" \in DOMAIN history[p]
      /\ "status" \notin DOMAIN history[p]
      /\ Get(history[p], "outputs", <<>>) # <<>>
      /\ response[p]["status"] = "error"

\* C10: when the engine answers the submission with a non-200 status,
\* queue_prompt raises an error that includes the status code and the body,
\* no job identifier is produced, no polling is done and the request ends
\* with status error
C10_RejectionIsAnError ==
    \A p \in Procs :
      last_post[p].status_code \notin {0, 200} =>
        /\ pc[p] = "done"
        /\ raised[p] = Exc("RuntimeError",
                           <<"ComfyUI error", last_post[p].status_code, last_post[p].body>>)
        /\ outcome[p] = "returned"
        /\ response[p]["status"] = "error"
        /\ response[p]["error"] = raised[p].msg
        /\ "prompt_id" \notin DOMAIN response[p]
        /\ prompt_id[p] = 0
        /\ "poll" \notin trace[p]

\* C10 witness: a submission was answered 400 and the request ended
C10_Witness ==
    \E p \in Procs :
      /\ pc[p] = "done"
      /\ last_post[p].status_code = 400
      /\ response[p]["status"] = "error"

\* what an error response says beyond its message: its fields other than
\* "error"
ErrorKind(resp) == [k \in DOMAIN resp \ {"error"} |-> resp[k]]

\* C11: when the readiness endpoint never answers 200 before the startup
\* deadline, the request ends with status error, no graph is submitted in that
\* request, and the response is of a kind of its own: apart from the message
\* it differs from the response to a rejected submission and from the
\* response to a polling timeout
C11_StartupFailureIsDistinct ==
    \A p \in Procs :
      (pc[p] = "done" /\ raised[p] = StartupError) =>
        /\ outcome[p] = "returned"
        /\ response[p]["status"] = "error"
        /\ "submit" \notin trace[p]
        /\ \A r \in Rejections :
             ErrorKind(response[p]) # ErrorKind(ErrorResponse(QueueError(r)))
        /\ ErrorKind(response[p]) # ErrorKind(ErrorResponse(CompletionTimeout))

\* C12: in a sequential run the subprocess handle, once held, is never reset
\* or replaced and no further process is launched, a call of start_comfyui
\* that finds the handle held goes straight on to building the workflow, and
\* at most one launch occurs
C12_StartIsIdempotent ==
    [][ /\ comfyui_process # 0 =>
             (comfyui_process' = comfyui_process /\ launches' = launches)
        /\ launches' <= 1
        /\ \A p \in Procs :
             (pc[p] = "start" /\ comfyui_process # 0 /\ pc'[p] # pc[p]) =>
               (pc'[p] = "build" /\ "launch" \notin trace'[p]) ]_vars

\* C12 witness: a second request passed start_comfyui without a launch of its
\* own, the first request having launched the engine
C12_Witness ==
    /\ received = 2
    /\ launches = 1
    /\ comfyui_process = 1
    /\ pc["w1"] = "build"
    /\ "start" \in trace["w1"]
    /\ "launch" \notin trace["w1"]

\* C13: resolve_duration returns the probed duration, never the hint, and a
\* warning if and only if a hint was supplied and differs from the measured
\* value by more than 1.0 (10 tenths); the duration literal of a lipsync graph
\* is the measured value
C13_MeasuredDurationWins ==
    /\ (call.fn = "resolve_duration" /\ call.out # <<>>) =>
         LET measured == ParseDuration(call.probe.stdout)
             hinted == "duration" \in DOMAIN call.params
             far == \/ measured - call.params["duration"] > 10
                    \/ call.params["duration"] - measured > 10
         IN /\ call.out[1].duration = measured
            /\ (call.out[1].warnings # <<>>) <=> (hinted /\ far)
            /\ Len(call.out[1].warnings) <= 1
    /\ call.fn = "build_lipsync_workflow" =>
         \A i \in DOMAIN call.out :
           call.out[i].graph["n5"]["inputs"]["duration"]
             = Lit(ParseDuration(call.probe.stdout))

\* C13 witness: measured 11.0 against a hint of 10.0, a difference of exactly
\* 1.0, was resolved to 11.0 without a warning
C13_Witness ==
    /\ call.fn = "resolve_duration"
    /\ call.out # <<>>
    /\ call.probe.stdout = "11.0"
    /\ call.params = [duration |-> 100]
    /\ call.out[1] = [duration |-> 110, warnings |-> <<>>]

\* C14: in a lipsync request whose duration probe exits non-zero or prints
\* nothing, the request ends with status error carrying the probe's failure
\* message, and no workflow is built, submitted or polled
C14_ProbeFailureStopsLipsync ==
    \A p \in Procs :
      (trace[p] \cap {"probe_nonzero", "probe_empty"} # {}) =>
        /\ action(p) = "lipsync"
        /\ pc[p] = "done"
        /\ outcome[p] = "returned"
        /\ response[p]["status"] = "error"
        /\ response[p]["error"] = IF "probe_nonzero" \in trace[p]
                                  THEN <<"ffprobe failed">>
                                  ELSE <<"ffprobe returned empty duration">>
        /\ workflow[p] = <<>>
        /\ prompt_id[p] = 0
        /\ trace[p] \cap {"build", "submit", "poll"} = {}

\* C14 witness: a probe that printed nothing ended a lipsync request with the
\* error response
C14_Witness ==
    \E p \in Procs :
      /\ pc[p] = "done"
      /\ "probe_empty" \in trace[p]
      /\ response[p]["status"] = "error"
      /\ launches = 1

\* the reference is supplied and names a file under COMFYUI_INPUT
ResolvesUnderInput(params, key) ==
    /\ key \in DOMAIN params
    /\ params[key] # ""
    /\ params[key] \in inputDir

\* C15: for lipsync, validate_inputs returns exactly one error per reference
\* (portrait image, audio) that is not supplied or does not exist under the
\* input root: 0, 1 or 2 errors, and none if and only if both are supplied and
\* exist there
C15_LipsyncErrorsPerReference ==
    (call.fn = "validate_inputs" /\ call.action = "lipsync" /\ call.out # <<>>) =>
      /\ Len(call.out[1]) =
           Cardinality({ key \in {"portrait_image", "audio"} :
                           ~ResolvesUnderInput(call.params, key) })
      /\ (call.out[1] = <<>>) <=>
           (ResolvesUnderInput(call.params, "portrait_image")
              /\ ResolvesUnderInput(call.params, "audio"))

\* C16: for tts, validate_inputs reports a missing text as one error and a
\* supplied voice sample that does not exist as one error, and accepts an
\* absent voice sample; the list is empty if and only if the text is
\* non-empty and the voice sample is absent or exists
C16_TtsErrors ==
    (call.fn = "validate_inputs" /\ call.action = "tts" /\ call.out # <<>>) =>
      LET errors == call.out[1]
          noText == "text" \notin DOMAIN call.params \/ call.params["text"] = ""
          sampled == "voice_sample" \in DOMAIN call.params
                       /\ call.params["voice_sample"] # ""
          found == sampled /\ call.params["voice_sample"] \in inputDir \cup HostFiles
      IN /\ Len(errors) = (IF noText THEN 1 ELSE 0)
                            + (IF sampled /\ ~found THEN 1 ELSE 0)
         /\ noText <=> (\E i \in DOMAIN errors :
                          errors[i] = <<"Missing required parameter", "text">>)
         /\ (sampled /\ ~found) <=> (\E i \in DOMAIN errors :
                                       errors[i][1] = "Voice sample not found")
         /\ (errors = <<>>) <=> (~noText /\ (~sampled \/ found))

\* C16 witness: a tts call with a text and no voice sample returned no error
C16_Witness ==
    /\ call.fn = "validate_inputs"
    /\ call.action = "tts"
    /\ call.params = [text |-> "Hello"]
    /\ call.out = << <<>> >>

\* C17: for an action other than lipsync and tts, validate_inputs returns
\* the empty list whatever the parameters are
C17_OtherActionsNeedNothing ==
    (call.fn = "validate_inputs" /\ call.action \notin {"lipsync", "tts"}
       /\ call.out # <<>>) =>
      call.out[1] = <<>>

\* C17 witness: an unrecognized action with references to missing files
\* returned no error
C17_Witness ==
    /\ call.fn = "validate_inputs"
    /\ call.action = "upscale"
    /\ call.params = [portrait_image |-> "missing.png", audio |-> "missing.wav"]
    /\ call.out = << <<>> >>

\* the sampler's seed literal in the graph a builder returned
SeedLiteral(fn, graph) ==
    CASE fn = "build_portrait_workflow" -> graph["n3"]["inputs"]["seed"]["lit"]
      [] fn = "build_tts_workflow" -> graph["n2"]["inputs"]["seed"]["lit"]
      [] fn = "build_lipsync_workflow" -> graph["n6"]["inputs"]["seed"]["lit"]

\* 0 <= v <= 2147483646
InSeedRange(v) ==
    /\ v.lo >= 0
    /\ v.lo < Limb
    /\ \/ v.hi = 0
       \/ v.hi = 1 /\ v.lo <= Limb - 2

\* the call is one of a builder
IsBuilderCall ==
    call.fn \in {"build_portrait_workflow", "build_tts_workflow", "build_lipsync_workflow"}

\* the seed parameter is absent or -1
SeedIsSentinel == "seed" \notin DOMAIN call.params \/ call.params["seed"] = MinusOne

\* C18: whatever integer seed build_lipsync_workflow is given (-1, another
\* negative value, a value up to or beyond 2^32), the seed literal of the
\* graph is in 0 .. 2147483646
C18_LipsyncSeedInRange ==
    call.fn = "build_lipsync_workflow" =>
      \A i \in DOMAIN call.out : InSeedRange(SeedLiteral(call.fn, call.out[i].graph))

\* C18 witness: the seed 2^32 + 5 was given and a graph was built; 2^32 + 5
\* is 2 * 2147483647 + 7
C18_Witness ==
    /\ call.fn = "build_lipsync_workflow"
    /\ call.params = [seed |-> Big(4, 5)]
    /\ call.out # <<>>
    /\ SeedLiteral(call.fn, call.out[1].graph) = Big(0, 7)

\* C19: in each builder a seed that is absent or -1 is replaced by a fresh
\* non-negative draw (reduced into range by the lipsync builder, so unchanged
\* when the draw is in range), and a supplied seed other than -1 is used as
\* given (by the lipsync builder when it is in 0 .. 2147483646)
C19_SeedSentinel ==
    IsBuilderCall =>
      \A i \in DOMAIN call.out :
        LET literal == SeedLiteral(call.fn, call.out[i].graph)
            fresh == call.out[i].fresh
        IN IF SeedIsSentinel
           THEN /\ NonNegative(literal)
                /\ fresh \in UrandomDraws
                /\ (call.fn # "build_lipsync_workflow" \/ InSeedRange(fresh)) =>
                     literal = fresh
           ELSE (call.fn # "build_lipsync_workflow" \/ InSeedRange(call.params["seed"])) =>
                  literal = call.params["seed"]

\* C19 witness: the portrait builder was given the seed -5 and used it
C19_Witness ==
    /\ call.fn = "build_portrait_workflow"
    /\ call.params = [seed |-> Big(-1, Limb - 5)]
    /\ call.out # <<>>
    /\ SeedLiteral(call.fn, call.out[1].graph) = Big(-1, Limb - 5)

\* the graph without the seed inputs of its nodes
EraseSeed(graph) ==
    [ n \in DOMAIN graph |->
        [ class_type |-> graph[n]["class_type"],
          inputs |-> [ k \in DOMAIN graph[n]["inputs"] \ {"seed"} |->
                         graph[n]["inputs"][k] ] ] ]

\* C20: two invocations of a builder on the same parameters return identical
\* graphs when the seed is fixed (not -1), and graphs that differ in no field
\* other than the seed field when the seed is -1 or absent
C20_BuildersAreDeterministic ==
    IsBuilderCall =>
      \A i, j \in DOMAIN call.out :
        IF SeedIsSentinel
        THEN EraseSeed(call.out[i].graph) = EraseSeed(call.out[j].graph)
        ELSE call.out[i].graph = call.out[j].graph

\* the nodes that node n of the graph references in its inputs
NodeRefs(graph, n) ==
    LET inputs == graph[n]["inputs"]
    IN { inputs[k]["ref"] : k \in { key \in DOMAIN inputs : "ref" \in DOMAIN inputs[key] } }

\* the nodes reached from the frontier by following references, steps deep
RECURSIVE ReachedFrom(_, _, _)
ReachedFrom(graph, frontier, steps) ==
    IF steps = 0 THEN frontier
    ELSE ReachedFrom(graph,
                     frontier \cup UNION { NodeRefs(graph, m) : m \in frontier \cap DOMAIN graph },
                     steps - 1)

\* every reference names a node of the graph
ReferentiallyClosed(graph) ==
    \A n \in DOMAIN graph : NodeRefs(graph, n) \subseteq DOMAIN graph

\* no node reaches itself through references
Acyclic(graph) ==
    \A n \in DOMAIN graph :
      n \notin ReachedFrom(graph, NodeRefs(graph, n), Cardinality(DOMAIN graph))

\* C21: every graph a builder returns is referentially closed (each
\* reference in a node's inputs names a node of the same graph) and acyclic
\* (no node transitively references itself)
C21_GraphsAreClosedAndAcyclic ==
    IsBuilderCall =>
      \A i \in DOMAIN call.out :
        /\ ReferentiallyClosed(call.out[i].graph)
        /\ Acyclic(call.out[i].graph)

\* C21 witness: a lipsync graph was built whose output node references the
\* sampler and reaches the checkpoint loader through three other nodes
C21_Witness ==
    /\ call.fn = "build_lipsync_workflow"
    /\ call.out # <<>>
    /\ LET graph == call.out[1].graph
       IN /\ "n6" \in NodeRefs(graph, "n7")
          /\ "n1" \in ReachedFrom(graph, {"n7"}, 4)
          /\ NodeRefs(graph, "n1") = {}

\* the media type get_output_files gives the items under a key it knows
MediaTypeOf(key) ==
    CASE key = "images" -> "image"
      [] key \in {"gifs", "videos"} -> "video"
      [] key = "audio" -> "audio"

KnownKeys == {"images", "gifs", "videos", "audio"}

\* the items under known keys, as (node index, key, item index)
KnownItems(outputs) ==
    UNION { UNION { { <<i, key, k>> : k \in DOMAIN outputs[i][2][key] } :
                    key \in KnownKeys \cap DOMAIN outputs[i][2] } :
            i \in DOMAIN outputs }

\* C22: get_output_files maps each item under images to an image descriptor,
\* each item under gifs or videos to a video descriptor and each item under
\* audio to an audio descriptor, and nothing else: the number of descriptors
\* is the number of items under known keys over all nodes, items under an
\* unknown key contribute nothing, and an empty outputs map yields the empty
\* list
C22_ExtractionByKey ==
    (call.fn = "get_output_files" /\ call.out # <<>>) =>
      LET files == call.out[1]
          outputs == Get(call.history, "outputs", <<>>)
          item(t) == outputs[t[1]][2][t[2]][t[3]]
      IN /\ Len(files) = Cardinality(KnownItems(outputs))
         /\ \A t \in KnownItems(outputs) :
              \E j \in DOMAIN files :
                /\ files[j]["type"] = MediaTypeOf(t[2])
                /\ files[j]["filename"] = item(t)["filename"]
                /\ files[j]["path"] = <<OUTPUT_DIR, "", item(t)["filename"]>>
         /\ \A j \in DOMAIN files :
              \E t \in KnownItems(outputs) :
                /\ files[j]["type"] = MediaTypeOf(t[2])
                /\ files[j]["filename"] = item(t)["filename"]
         /\ (outputs = <<>>) => (files = <<>>)

\* C22 witness: a result with two items under each of gifs, videos and an
\* unknown key in one node and one image in another gave five descriptors,
\* four of them videos
C22_Witness ==
    /\ call.fn = "get_output_files"
    /\ call.out # <<>>
    /\ "outputs" \in DOMAIN call.history
    /\ Len(call.history["outputs"]) = 2
    /\ DOMAIN call.history["outputs"][1][2] = {"gifs", "videos", "text"}
    /\ Len(call.history["outputs"][1][2]["text"]) = 2
    /\ Len(call.out[1]) = 5
    /\ Cardinality({ j \in DOMAIN call.out[1] : call.out[1][j]["type"] = "video" }) = 4

\* the request of worker p has ended with the success response
EndedInSuccess(p) ==
    /\ pc[p] = "done"
    /\ "status" \in DOMAIN response[p]
    /\ response[p]["status"] = "success"

\* the result holds inline base64 content and neither path nor size
InlineShape(result) ==
    /\ {"data", "encoding"} \subseteq DOMAIN result
    /\ result["encoding"] = "base64"
    /\ DOMAIN result \cap {"path", "size_bytes", "size", "url"} = {}

\* the result holds the local path and the byte size and no inline content
PathShape(p, result) ==
    /\ {"path", "size_bytes"} \subseteq DOMAIN result
    /\ result["path"] = LocalPathOf(p, result)
    /\ result["size_bytes"] = getsize(LocalPathOf(p, result))
    /\ DOMAIN result \cap {"data", "encoding"} = {}

\* C23: without Supabase every delivered file has exactly one of two shapes,
\* decided by its size: below the 10 MiB ceiling inline base64 content and no
\* path or size, above the ceiling the local path and the byte size and no
\* inline content
C23_ShapeBySize ==
    \A p \in Procs :
      ~supabase =>
        \A k \in DOMAIN results[p] :
          LET result == results[p][k]
              size == getsize(LocalPathOf(p, result))
          IN /\ InlineShape(result) # PathShape(p, result)
             /\ size < InlineCeiling => InlineShape(result)
             /\ size > InlineCeiling => PathShape(p, result)
             /\ EndedInSuccess(p) => response[p]["files"] = results[p]

\* C23 witness: a success response without Supabase holds one inline file
\* that is under the ceiling and one path-only file that is over it
C23_Witness ==
    \E p \in Procs :
      /\ ~supabase
      /\ EndedInSuccess(p)
      /\ \E i, j \in DOMAIN response[p]["files"] :
           /\ InlineShape(response[p]["files"][i])
           /\ getsize(LocalPathOf(p, response[p]["files"][i])) < InlineCeiling
           /\ PathShape(p, response[p]["files"][j])
           /\ response[p]["files"][j]["size_bytes"] > InlineCeiling

\* C24: a file leaves the output directory only in the cleanup step of a
\* request whose own descriptor list holds it, and only when Supabase is
\* configured: no step removes a file of another (concurrent) request's list
\* or any other file, and without Supabase no file is ever removed
C24_CleanupRemovesOnlyOwnFiles ==
    [][ \A path \in outputDir \ outputDir' :
          /\ supabase
          /\ \E p \in Procs :
               /\ pc[p] = "cleanup"
               /\ pc'[p] # "cleanup"
               /\ path \in PathsOf(output_files[p])
               /\ \A q \in Procs \ {p} : path \notin PathsOf(output_files[q]) ]_vars

\* C24 witness: one worker has uploaded a file and removed it in its cleanup
\* while a file of the other worker's request, still being delivered, is in
\* the output directory
C24_Witness ==
    \E p \in Procs :
      \E q \in Procs \ {p} :
        /\ "cleanup" \in trace[p]
        /\ \E k \in DOMAIN results[p] : LocalPathOf(p, results[p][k]) \notin outputDir
        /\ pc[q] \in {"deliver", "cleanup"}
        /\ PathsOf(output_files[q]) \cap outputDir # {}

\* C25: a request in which an upload failed and no fallback encoding failed
\* ends with status success; the response has no error field, the file whose
\* upload failed carries the inline fallback with the upload_error annotation,
\* and every other file carries its upload result
C25_UploadFailureKeepsSuccess ==
    \A p \in Procs :
      (pc[p] = "done" /\ "upload_failed" \in trace[p] /\ "encode_failed" \notin trace[p]) =>
        /\ EndedInSuccess(p)
        /\ outcome[p] = "returned"
        /\ "error" \notin DOMAIN response[p]
        /\ response[p]["files"] = results[p]
        /\ \E k \in DOMAIN results[p] : "upload_error" \in DOMAIN results[p][k]
        /\ \A k \in DOMAIN results[p] :
             IF "upload_error" \in DOMAIN results[p][k]
             THEN /\ results[p][k]["data"] = file_to_base64(LocalPathOf(p, results[p][k]))
                  /\ results[p][k]["encoding"] = "base64"
                  /\ \E e \in UploadFailures : results[p][k]["upload_error"] = e.msg
                  /\ "url" \notin DOMAIN results[p][k]
             ELSE /\ "url" \in DOMAIN results[p][k]
                  /\ "data" \notin DOMAIN results[p][k]

\* C25 witness: a request with two files, one uploaded and one whose upload
\* failed on a refused connection, ended in success
C25_Witness ==
    \E p \in Procs :
      /\ EndedInSuccess(p)
      /\ {"upload", "upload_failed"} \subseteq trace[p]
      /\ Len(response[p]["files"]) = 2
      /\ \E k \in DOMAIN response[p]["files"] :
           /\ "upload_error" \in DOMAIN response[p]["files"][k]
           /\ response[p]["files"][k]["upload_error"] = <<"Connection refused">>

\* C26: with Supabase configured, every step of the delivery loop that
\* records a result handles a file for which the request has no result yet
\* and moves on to the next file, so each file is uploaded at most once; the
\* result of a failed upload holds one inline encoding of that file and the
\* upload_error annotation
C26_OneUploadPerFile ==
    [][ \A p \in Procs :
          (supabase /\ pc[p] = "deliver" /\ results'[p] # results[p]) =>
            LET f == file_info(p)
                r == results'[p][Len(results'[p])]
            IN /\ results'[p] = Append(results[p], r)
               /\ idx'[p] = idx[p] + 1
               /\ r["filename"] = f["filename"]
               /\ \A k \in DOMAIN results[p] : results[p][k]["filename"] # f["filename"]
               /\ \A i \in DOMAIN output_files[p] :
                    i # idx[p] => output_files[p][i]["path"] # f["path"]
               /\ IF "upload_error" \in DOMAIN r
                  THEN /\ r["data"] = file_to_base64(f["path"])
                       /\ "url" \notin DOMAIN r
                  ELSE /\ "url" \in DOMAIN r
                       /\ "data" \notin DOMAIN r ]_vars

\* C26 witness: both files of a request failed to upload, each has its one
\* fallback result, and the loop is over
C26_Witness ==
    \E p \in Procs :
      /\ supabase
      /\ pc[p] = "cleanup"
      /\ Len(output_files[p]) = 2
      /\ Len(results[p]) = 2
      /\ \A k \in DOMAIN results[p] : "upload_error" \in DOMAIN results[p][k]
      /\ results[p][1]["filename"] # results[p][2]["filename"]

\* the job of worker p reported success with one image as its only output
OneImageReported(p) ==
    /\ "prompt" \in DOMAIN history[p]
    /\ ReportsSuccess(history[p])
    /\ Get(history[p], "outputs", <<>>) = << <<"9", [images |-> <<Item(prompt_id[p], 1)>>]>> >>

\* C27: a portrait request without Supabase whose job reports success with
\* one image that is on disk, under the ceiling and readable ends in a success
\* response with exactly one file, an inline-encoded image, and no warnings
C27_PortraitHappyPath ==
    \A p \in Procs :
      (/\ pc[p] = "done"
       /\ ~supabase
       /\ action(p) = "portrait"
       /\ OneImageReported(p)
       /\ OutputPath("", Item(prompt_id[p], 1)["filename"]) \in outputDir
       /\ getsize(OutputPath("", Item(prompt_id[p], 1)["filename"])) < InlineCeiling
       /\ "encode_failed" \notin trace[p]) =>
        /\ EndedInSuccess(p)
        /\ outcome[p] = "returned"
        /\ Len(response[p]["files"]) = 1
        /\ response[p]["files"][1]["type"] = "image"
        /\ response[p]["files"][1]["filename"] = Item(prompt_id[p], 1)["filename"]
        /\ InlineShape(response[p]["files"][1])
        /\ "warnings" \notin DOMAIN response[p]
        /\ response[p]["action"] = "portrait"
        /\ response[p]["storage"] = "base64"

\* C27 witness: such a portrait request has ended, after the engine was
\* launched for it and became ready
C27_Witness ==
    \E p \in Procs :
      /\ pc[p] = "done"
      /\ ~supabase
      /\ action(p) = "portrait"
      /\ OneImageReported(p)
      /\ {"launch", "submit", "poll", "extract", "inline"} \subseteq trace[p]
      /\ readyAnswered
      /\ response[p]["files"] # <<>>
      /\ "data" \in DOMAIN response[p]["files"][1]

\* the request of worker p is a health or debug request, or has ended with
\* the validation failure response
NeedsNoEngine(p) ==
    \/ pc[p] # "idle" /\ action(p) \in {"health", "debug"}
    \/ pc[p] = "done" /\ "validation_errors" \in DOMAIN response[p]

\* C28: a request that ends as health, debug or validation failure never calls
\* start_comfyui, never launches the engine process and never submits a
\* graph; in every request a launch or a submission comes after the call of
\* start_comfyui
C28_EngineIsLaunchedLazily ==
    \A p \in Procs :
      /\ NeedsNoEngine(p) => trace[p] \cap EngineStages = {}
      /\ "launch" \in trace[p] => "start" \in trace[p]
      /\ "submit" \in trace[p] => "start" \in trace[p]
      /\ pc[p] \in {"queue", "wait"} => "start" \in trace[p]

\* C28 witness: the first request launched the engine and submitted a graph,
\* the second one ended as a validation failure without touching the engine
C28_Witness ==
    \E p \in Procs :
      /\ received = 2
      /\ launches = 1
      /\ jobs = 1
      /\ pc[p] = "done"
      /\ "validation_errors" \in DOMAIN response[p]
      /\ trace[p] = {"validate"}

\* C29: every request that handler() has taken up eventually ends with a
\* response or an exception, whatever the engine does (checked under
\* SpecFair; a poll of wait_for_completion that is never answered does not
\* return)
C29_EveryRequestReturns ==
    \A p \in Procs : (pc[p] = "entry") ~> (pc[p] = "done")

\* C30: every response with status success holds at least one delivered
\* file; a request none of whose extracted files can be delivered does not
\* end in success with an empty files list (the loop skips a file that is not
\* on disk and the success response is built all the same)
C30_SuccessHasAFile ==
    \A p \in Procs :
      EndedInSuccess(p) => response[p]["files"] # <<>>

\* the request of worker p names an action that handler() does not know
UnrecognizedAction(p) ==
    /\ pc[p] # "idle"
    /\ action(p) \notin {"health", "debug", "portrait", "tts", "lipsync"}

\* C31: a request with an unrecognized action never launches the engine
\* process and never submits a graph, and it ends with the unknown-action
\* error response whatever the engine's state is (start_comfyui() runs before
\* the action is looked at)
C31_UnknownActionLeavesEngineAlone ==
    \A p \in Procs :
      UnrecognizedAction(p) =>
        /\ trace[p] \cap {"launch", "submit"} = {}
        /\ pc[p] = "done" => response[p] = UnknownActionResponse(action(p))

\* the result holds what upload_to_supabase returned: the public URL, the
\* signed URL, the storage path and the size, and no inline content
RemoteShape(result) ==
    /\ {"url", "signed_url", "path", "size"} \subseteq DOMAIN result
    /\ result["url"] = <<"public", RemotePath(result)>>
    /\ result["path"] = RemotePath(result)
    /\ DOMAIN result \cap {"data", "encoding", "size_bytes", "upload_error"} = {}

\* the delivery forms a result carries
FormsOf(result) ==
    { form \in {"remote", "inline", "local"} :
        \/ form = "remote" /\ "url" \in DOMAIN result
        \/ form = "inline" /\ "data" \in DOMAIN result
        \/ form = "local" /\ "size_bytes" \in DOMAIN result }

\* C32: every file entry of a success response carries exactly one delivery
\* form: the remote URL of a successful upload, or an inline base64 payload
\* (no Supabase and a file under the ceiling, or the fallback of a failed
\* upload), or the local path with the byte size (no Supabase and a file at
\* or over the ceiling); a remote URL appears only with Supabase configured
C32_OneDeliveryForm ==
    \A p \in Procs :
      EndedInSuccess(p) =>
        \A k \in DOMAIN response[p]["files"] :
          LET result == response[p]["files"][k]
              size == getsize(LocalPathOf(p, result))
          IN /\ Cardinality(FormsOf(result)) = 1
             /\ "url" \in DOMAIN result => supabase /\ RemoteShape(result)
             /\ "data" \in DOMAIN result =>
                  /\ InlineShape(result)
                  /\ IF supabase THEN "upload_error" \in DOMAIN result
                     ELSE size < InlineCeiling /\ "upload_error" \notin DOMAIN result
             /\ "size_bytes" \in DOMAIN result =>
                  ~supabase /\ PathShape(p, result) /\ size >= InlineCeiling

\* C32 witness: a success response with Supabase holds an uploaded file
\* whose URL could not be signed and a file that fell back to inline
C32_Witness ==
    \E p \in Procs :
      /\ EndedInSuccess(p)
      /\ supabase
      /\ \E j, k \in DOMAIN response[p]["files"] :
           /\ RemoteShape(response[p]["files"][j])
           /\ response[p]["files"][j]["signed_url"] = <<"None">>
           /\ InlineShape(response[p]["files"][k])
           /\ "upload_error" \in DOMAIN response[p]["files"][k]

\* C33: no response carries an inline base64 payload for a file whose size
\* is at or above the 10 MiB ceiling, with or without Supabase (the fallback
\* of a failed upload encodes the file without looking at its size)
C33_NoInlineAtOrOverCeiling ==
    \A p \in Procs :
      (pc[p] = "done" /\ "files" \in DOMAIN response[p]) =>
        \A k \in DOMAIN response[p]["files"] :
          "data" \in DOMAIN response[p]["files"][k] =>
            getsize(LocalPathOf(p, response[p]["files"][k])) < InlineCeiling

\* C34: a success response carries the warnings field if and only if the
\* request is a lipsync request whose supplied duration differs from the
\* measured one by more than 1.0 s: the warning list is set when the workflow
\* is built (empty for portrait and tts, and for lipsync unless the supplied
\* duration is more than 10 tenths away from the measured duration the graph
\* is built with), no later step of the request changes it (a failed upload
\* adds nothing), and the success response carries it exactly when it is not
\* empty
C34_WarningsOnlyForDurationMismatch ==
    [][ \A p \in Procs :
          /\ (pc[p] = "build" /\ pc'[p] = "queue") =>
               IF action(p) = "lipsync"
               THEN LET measured == workflow'[p]["n5"]["inputs"]["duration"]["lit"]
                        mismatch == /\ "duration" \in DOMAIN input_data[p]
                                    /\ Abs(measured - input_data[p]["duration"]) > 10
                    IN (warnings'[p] # <<>>) <=> mismatch
               ELSE warnings'[p] = <<>>
          /\ (pc[p] \notin {"idle", "build", "done"}) =>
               /\ warnings'[p] = warnings[p]
               /\ input_data'[p] = input_data[p]
          /\ (pc'[p] = "done" /\ "status" \in DOMAIN response'[p]
                /\ response'[p]["status"] = "success") =>
               /\ ("warnings" \in DOMAIN response'[p]) <=> (warnings'[p] # <<>>)
               /\ warnings'[p] # <<>> =>
                    /\ response'[p]["warnings"] = warnings'[p]
                    /\ action(p) = "lipsync" ]_vars

\* C34 witness: a lipsync request given 10.0 s for a measured 15.0 s ended in
\* success with that one warning, although the upload of one of its files
\* failed
C34_Witness ==
    \E p \in Procs :
      /\ EndedInSuccess(p)
      /\ action(p) = "lipsync"
      /\ "warnings" \in DOMAIN response[p]
      /\ Len(response[p]["warnings"]) = 1
      /\ response[p]["warnings"][1][2] = 100
      /\ response[p]["warnings"][1][3] = 150
      /\ \E k \in DOMAIN response[p]["files"] :
           "upload_error" \in DOMAIN response[p]["files"][k]

====
